---- MODULE Spec2Model ----
(***************************************************************************)
(* Session lifecycle coordinator of the four-seat room (Cloud Functions    *)
(* gamesCreate, gamesJoin, gameIntent/RESIGN, gameReset, gameLeave,        *)
(* gameKick) over the documents of one room: the game document, the        *)
(* players and hands sub-collections and the board, config, bank and trade *)
(* documents.  Every callable runs its Firestore transaction atomically:   *)
(* its writes are buffered and applied together on commit, and a thrown    *)
(* HttpsError discards them.                                               *)
(***************************************************************************)
EXTENDS Integers, Sequences, FiniteSets, TLC

\* ------------------------------------------------------------------ bounds
NumUsers == 5          \* distinct caller identities (auth uids)
MaxPieces == 1         \* pieces the rule engine places before it stops

\* ------------------------------------------------------- program constants
MAX_PLAYERS == 4

AllIds == <<"A", "B", "C", "D", "E", "F", "G">>
Users == {AllIds[i] : i \in 1..NumUsers}
UidIdx(u) == CHOOSE i \in 1..Len(AllIds) : AllIds[i] = u

Null == "null"                 \* JavaScript null in an id-valued field
NoHost == ""                   \* hostUid of an emptied room
PLAYER_COLORS == <<"red", "blue", "white", "orange">>
NullWinner == [playerId |-> Null, points |-> 0]     \* winner: null
EmptyMap == [k \in {} |-> 0]

VARIABLES
    exists,     \* the game document exists (gameSnap.exists)
    game,       \* GameDoc
    players,    \* players sub-collection: doc id -> PlayerPublicDoc
    hands,      \* hands sub-collection: doc id -> HandDoc
    board,      \* BoardDoc
    config,     \* ConfigDoc
    bank,       \* BankDoc
    trade,      \* TradeDoc
    nSeated,    \* how many identities have held a seat so far
    rooms,      \* games collection: the room documents created so far, each with its code
    calls,      \* gamesCreate invocations in flight: position, probes made, candidate
    logs,       \* logs sub-collection of the room: the entries appended so far
    logCalls,   \* callables past their transaction: awaiting logGameEvent, or ended by its failure
    pools,      \* the generator's module-level arrays TILE_POOL, NUMBER_CHITS, PORT_TYPE_POOL
    runs,       \* runs of the generator so far: function, seed, what it returned
    txs         \* transactions of concurrent callables: position, documents read, outcome

docVars == <<exists, game, players, hands, board, config, bank, trade>>
roomVars == <<exists, game, players, hands, board, config, bank, trade, nSeated>>
codeVars == <<rooms, calls>>
logVars == <<logs, logCalls>>
\* What the lifecycle of one room leaves alone.
genVars == <<pools, runs>>
txVars == <<txs>>
otherVars == <<codeVars, logVars, genVars, txVars>>
vars == <<roomVars, otherVars>>

\* The documents of the room, as one snapshot.
Docs ==
    [exists |-> exists, game |-> game, players |-> players, hands |-> hands,
     board |-> board, config |-> config, bank |-> bank, trade |-> trade]

\* ----------------------------------------------------------------- helpers
Range(s) == {s[i] : i \in 1..Len(s)}
Reverse(s) == [i \in 1..Len(s) |-> s[Len(s) + 1 - i]]
Restrict(f, S) == [k \in S |-> f[k]]
IndexOf(s, x) == CHOOSE i \in 1..Len(s) : s[i] = x

\* ------------------------------------------------------------------- setup
createEmptyHand == [resources |-> 0, devCards |-> 0, devNewlyBought |-> 0, armyCount |-> 0]

createInitialBoard ==
    [roads |-> {}, settlements |-> {}, cities |-> {}, longestRoadCache |-> EmptyMap,
     dotted |-> {}]

createInitialBank(deckSize) == [resources |-> 19, devRemain |-> deckSize]

createInitialTrade == [phase |-> "idle", offer |-> Null]

createInitialPlacementOrderMutNoReverse(turnOrder) == turnOrder \o turnOrder

createInitialPlacementOrder(turnOrder) ==
    IF Len(turnOrder) = 0 THEN <<>> ELSE turnOrder \o Reverse(turnOrder)

createInitialLongestRoadCacheMutEmpty(playerIds) == EmptyMap

createInitialLongestRoadCache(playerIds) == [id \in Range(playerIds) |-> 0]

DevDeckSize == 25

generateInitialConfig == [devDeckSize |-> DevDeckSize, initialPlacementOrder |-> <<>>]

\* ------------------------------------------------- procedural generator
\* setup.ts.  JavaScript's bitwise operators and Math.imul work on 32-bit
\* integers; a 32-bit word is kept here as <<high half, low half>>, two 16-bit
\* numbers, and every operation is carried out on the halves.
Half == 2^16

RECURSIVE BitXor(_, _, _)
BitXor(x, y, n) ==
    IF n = 0 THEN 0
    ELSE (((x % 2) + (y % 2)) % 2) + 2 * BitXor(x \div 2, y \div 2, n - 1)

RECURSIVE BitOr(_, _, _)
BitOr(x, y, n) ==
    IF n = 0 THEN 0
    ELSE (IF (x % 2) + (y % 2) > 0 THEN 1 ELSE 0) + 2 * BitOr(x \div 2, y \div 2, n - 1)

ToWord(n) == <<n \div Half, n % Half>>                      \* 0 <= n < 2^31
Xor32(a, b) == <<BitXor(a[1], b[1], 16), BitXor(a[2], b[2], 16)>>       \* a ^ b
Or32(a, b) == <<BitOr(a[1], b[1], 16), BitOr(a[2], b[2], 16)>>          \* a | b
Add32(a, b) ==                                                          \* (a + b) | 0
    LET lo == a[2] + b[2]
    IN <<(a[1] + b[1] + (lo \div Half)) % Half, lo % Half>>
Shr32(a, n) ==                                                          \* a >>> n, 0 < n < 16
    <<a[1] \div (2^n), (a[2] \div (2^n)) + (a[1] % (2^n)) * (2^(16 - n))>>

\* x * y modulo 2^16, for 16-bit x and y, without leaving 32 bits.
MulHalf(x, y) == ((x % 256) * y + (((x \div 256) * (y % 256)) % 256) * 256) % Half

\* Math.imul(a, b): the low 32 bits of the product.
imul(a, b) ==
    LET p0 == (a[2] % 256) * b[2]
        p1 == (a[2] \div 256) * b[2]
        lo == (p0 % Half) + (p1 % 256) * 256
        hi == (p0 \div Half) + (p1 \div 256) + (lo \div Half)
    IN <<(hi + MulHalf(a[1], b[2]) + MulHalf(a[2], b[1])) % Half, lo % Half>>

\* One call of the closure makeMulberry32 returns: the closure's seed after
\* the call, and the word w of the returned value w / 4294967296.
Increment == <<27947, 31221>>                                   \* 0x6d2b79f5

makeMulberry32(seed) ==
    LET s == Add32(seed, Increment)
        t1 == imul(Xor32(s, Shr32(s, 15)), Or32(ToWord(1), s))
        t2 == Xor32(Add32(t1, imul(Xor32(t1, Shr32(t1, 7)), Or32(ToWord(61), t1))), t1)
    IN [seed |-> s, value |-> Xor32(t2, Shr32(t2, 14))]

\* The first n values of the rng made from seed.  Each call leaves the
\* closure's seed greater by Increment, so call number k starts from
\* seed + (k - 1) * Increment.
rngValues(seed, n) ==
    <<>> \o [k \in 1..n |-> makeMulberry32(Add32(seed, imul(ToWord(k - 1), Increment))).value]

charCodeAt ==
    ("0" :> 48) @@ ("1" :> 49) @@ ("2" :> 50) @@ ("3" :> 51) @@ ("4" :> 52) @@
    ("5" :> 53) @@ ("6" :> 54) @@ ("7" :> 55) @@ ("8" :> 56) @@ ("9" :> 57) @@
    ("a" :> 97) @@ ("b" :> 98) @@ ("c" :> 99) @@ ("d" :> 100) @@ ("e" :> 101) @@
    ("f" :> 102) @@ ("v" :> 118) @@ ("-" :> 45)

\* hashSeed: h = Math.imul(31, h) + seed.charCodeAt(i); h |= 0.  A string is a
\* sequence of its characters.
RECURSIVE hashSeedFrom(_, _, _)
hashSeedFrom(h, seed, i) ==
    IF i > Len(seed) THEN h
    ELSE hashSeedFrom(Add32(imul(ToWord(31), h), ToWord(charCodeAt[seed[i]])), seed, i + 1)

hashSeed(seed) == hashSeedFrom(ToWord(0), seed, 1)

\* Math.floor(value * n) for the value w / 4294967296 and 0 < n < 2^15.
floorTimes(w, n) == (w[1] * n + (w[2] * n) \div Half) \div Half

HEX_IDS == [i \in 1..19 |-> i - 1]          \* hex_00 .. hex_18, by number

TILE_POOL ==
    <<"wood", "wood", "wood", "wood", "brick", "brick", "brick",
      "sheep", "sheep", "sheep", "sheep", "wheat", "wheat", "wheat", "wheat",
      "ore", "ore", "ore", "desert">>

NUMBER_CHITS == <<2, 3, 3, 4, 4, 5, 5, 6, 6, 8, 8, 9, 9, 10, 10, 11, 11, 12>>

PORT_EDGE_IDS ==
    <<"e:r0-c1", "e:r0-c3", "e:r1-c5", "e:r3-c6", "e:r4-c6", "e:r5-c4", "e:r5-c2",
      "e:r3-c0", "e:r1-c0">>

PORT_TYPE_POOL == <<"3:1", "3:1", "3:1", "3:1", "wood", "brick", "sheep", "wheat", "ore">>

DEV_CARD_KINDS == <<"knight", "roadBuilding", "yearOfPlenty", "monopoly", "vp">>

DEV_DECK_COMPOSITIONMutVpAsKnight ==
    [knight |-> 15, roadBuilding |-> 2, yearOfPlenty |-> 2, monopoly |-> 2, vp |-> 4]

DEV_DECK_COMPOSITION ==
    [knight |-> 14, roadBuilding |-> 2, yearOfPlenty |-> 2, monopoly |-> 2, vp |-> 5]

\* The module-level arrays the generator shuffles.  They are ordinary arrays,
\* which any code holding them can write to.
InitialPools == [tiles |-> TILE_POOL, chits |-> NUMBER_CHITS, ports |-> PORT_TYPE_POOL]

swapMutCopy(arr, i, j) == [arr EXCEPT ![i] = arr[j]]

\* [arr[i], arr[j]] = [arr[j], arr[i]]
swap(arr, i, j) == [arr EXCEPT ![i] = arr[j], ![j] = arr[i]]

\* The loop of shuffle, at 1-based position p (p = i + 1); rng is the
\* sequence of words the rng returns from here on.
RECURSIVE shuffleLoop(_, _, _)
shuffleLoop(arr, p, rng) ==
    IF p < 2 THEN arr
    ELSE shuffleLoop(swap(arr, p, floorTimes(Head(rng), p) + 1), p - 1, Tail(rng))

shuffleMutInPlace(values, rng) ==
    [arr |-> shuffleLoop(values, Len(values), rng),
     values |-> shuffleLoop(values, Len(values), rng),
     rng |-> SubSeq(rng, Len(values), Len(rng))]

\* shuffle: arr is the array returned, values the array passed in as the call
\* leaves it (the loop works on values.slice()), rng what the rng returns
\* after the call.
shuffle(values, rng) ==
    [arr |-> shuffleLoop(values, Len(values), rng),
     values |-> values,
     rng |-> SubSeq(rng, Len(values), Len(rng))]

\* Calls of the rng one generateMap and one buildDevDeck make.
MapDraws == (Len(TILE_POOL) - 1) + (Len(NUMBER_CHITS) - 1) + (Len(PORT_TYPE_POOL) - 1)

RECURSIVE deckOf(_)
deckOf(kinds) ==
    IF kinds = <<>> THEN <<>>
    ELSE [i \in 1..DEV_DECK_COMPOSITION[Head(kinds)] |-> Head(kinds)] \o deckOf(Tail(kinds))

DeckDraws == Len(deckOf(DEV_CARD_KINDS)) - 1

numberTargetsMutAll(tiles) == tiles

\* tiles.filter((tile) => tile.type !== "desert")
numberTargets(tiles) == SelectSeq(tiles, LAMBDA tile : tile.type # "desert")

\* generateMap from the rng on: map, robberHex, and the pools as it leaves them.
generateMapWith(arrays, rng) ==
    LET t == shuffle(arrays.tiles, rng)
        tiles == [index \in 1..Len(t.arr) |-> [hexId |-> HEX_IDS[index], type |-> t.arr[index]]]
        deserts == {index \in 1..Len(tiles) : tiles[index].type = "desert"}
        robberHex ==
            IF deserts # {}
            THEN tiles[CHOOSE index \in deserts : \A other \in deserts : index <= other].hexId
            ELSE HEX_IDS[1]
        targets == numberTargets(tiles)
        n == shuffle(arrays.chits, t.rng)
        numbers ==
            [index \in 1..Len(n.arr) |->
                [hexId |-> IF index <= Len(targets) THEN targets[index].hexId
                           ELSE HEX_IDS[index],
                 chit |-> n.arr[index]]]
        p == shuffle(arrays.ports, n.rng)
        ports ==
            [index \in 1..Len(p.arr) |->
                [edgeId |-> IF index <= Len(PORT_EDGE_IDS) THEN PORT_EDGE_IDS[index]
                            ELSE PORT_EDGE_IDS[1],
                 type |-> p.arr[index]]]
    IN [map |-> [tiles |-> tiles, numbers |-> numbers, ports |-> ports],
        robberHex |-> robberHex,
        pools |-> [tiles |-> t.values, chits |-> n.values, ports |-> p.values]]

\* buildDevDeck from the rng on.
buildDevDeckWith(rng) == shuffle(deckOf(DEV_CARD_KINDS), rng).arr

\* createSeed: randomBytes(n).toString("hex"), two hexadecimal digits a byte.
HexDigits == <<"0", "1", "2", "3", "4", "5", "6", "7", "8", "9", "a", "b", "c", "d", "e", "f">>

RECURSIVE toHexString(_)
toHexString(bytes) ==
    IF bytes = <<>> THEN <<>>
    ELSE <<HexDigits[(Head(bytes) \div 16) + 1], HexDigits[(Head(bytes) % 16) + 1]>>
         \o toHexString(Tail(bytes))

\* makeMulberry32(hashSeed(seed)): the values the rng returns, as many as n.
rngOfSeed(seed, n) == rngValues(hashSeed(seed), n)

NumSeeds == 3          \* seeds createSeed returns

\* createSeed, with one random byte for its eight.
Seeds == {toHexString(<<byte>>) : byte \in 0..(NumSeeds - 1)}

\* The rng of generateMap(seed) and of buildDevDeck(seed), for every seed.
MapRng == [seed \in Seeds |-> rngOfSeed(seed, MapDraws)]
DevRng == [seed \in Seeds |-> rngOfSeed(<<"d", "e", "v", "-">> \o seed, DeckDraws)]

generateMap(arrays, seed) == generateMapWith(arrays, MapRng[seed])

buildDevDeck(seed) == buildDevDeckWith(DevRng[seed])

\* generateInitialConfig with the two seeds createSeed returned: the Config
\* document, the robber hex, and the pools as the call leaves them.
generateInitialConfigFrom(arrays, mapSeed, devSeed) ==
    LET m == generateMap(arrays, mapSeed)
        devDeckOrder == buildDevDeck(devSeed)
    IN [config |-> [map |-> m.map, devDeckSeed |-> devSeed, devDeckOrder |-> devDeckOrder,
                    initialPlacementOrder |-> <<>>],
        robberHex |-> m.robberHex,
        pools |-> m.pools]

nextAvailableColorMutBySeatCount(used) ==
    IF Cardinality(used) < Len(PLAYER_COLORS) THEN PLAYER_COLORS[Cardinality(used) + 1] ELSE Null

nextAvailableColor(used) ==
    IF \E i \in 1..Len(PLAYER_COLORS) : PLAYER_COLORS[i] \notin used
    THEN PLAYER_COLORS[CHOOSE i \in 1..Len(PLAYER_COLORS) :
            /\ PLAYER_COLORS[i] \notin used
            /\ \A j \in 1..(i - 1) : PLAYER_COLORS[j] \in used]
    ELSE Null

\* -------------------------------------------------- store write primitives
\* tx.set(ref, {longestRoadCache: m}, {merge: true}): the field mask holds the
\* leaves of the written map, so every key of m is set and every other key of
\* the stored map stays; an empty m is itself a leaf and replaces the map.
MergeLongestRoadCache(old, new) ==
    IF DOMAIN new = {} THEN new
    ELSE [k \in (DOMAIN old) \cup (DOMAIN new) |-> IF k \in DOMAIN new THEN new[k] ELSE old[k]]

\* Result of a transaction body: the error it threw ("ok" when it returned)
\* and the documents as its buffered writes would leave them.
Res(err, d) == [err |-> err, docs |-> d]

\* ------------------------------------------------------- shared handlers
\* Doc ids of a players snapshot sorted by data.order; Array.prototype.sort is
\* stable, so equal orders keep the snapshot's (document id) order.
RECURSIVE SortByOrder(_, _)
SortByOrder(pl, ids) ==
    IF ids = {} THEN <<>>
    ELSE LET m == CHOOSE x \in ids : \A y \in ids :
                    \/ pl[x].order < pl[y].order
                    \/ (pl[x].order = pl[y].order /\ UidIdx(x) <= UidIdx(y))
         IN <<m>> \o SortByOrder(pl, ids \ {m})

getPlayerDocs(pl) == SortByOrder(pl, DOMAIN pl)

ensurePlayerInGameMutAlways(pls, playerId) == TRUE

\* ensurePlayerInGame throws failed-precondition unless this holds.
ensurePlayerInGame(pls, playerId) == playerId \in Range(pls)

remainingPlayersMutNoFilter(pls, playerId) == pls

\* players.filter((player) => player.id !== playerId)
remainingPlayers(pls, playerId) == SelectSeq(pls, LAMBDA id : id # playerId)

reindexPlayerOrdersMutKeep(pl, remaining) == pl

reindexPlayerOrders(pl, remaining) ==
    [id \in DOMAIN pl |->
        IF id \in Range(remaining)
        THEN [pl[id] EXCEPT !.order = IndexOf(remaining, id) - 1]
        ELSE pl[id]]

buildSeatRemovalGameUpdatesMutKeepHost(g, remaining, removedId) ==
    LET first(dflt) == IF Len(remaining) > 0 THEN remaining[1] ELSE dflt
        stillSeated == g.currentPlayer \notin {Null, ""} /\ g.currentPlayer \in Range(remaining)
        u1 == [g EXCEPT !.turnOrder = remaining]
        u3 == IF ~stillSeated
              THEN [u1 EXCEPT !.currentPlayer = first(Null), !.turnPhase = "action"]
              ELSE u1
        u6 == IF g.status = "placing" /\ Len(remaining) < MAX_PLAYERS
              THEN [u3 EXCEPT !.status = "lobby", !.round = 0]
              ELSE u3
    IN IF Len(remaining) = 0
       THEN [u6 EXCEPT !.status = "lobby", !.round = 0, !.currentPlayer = Null]
       ELSE u6

buildSeatRemovalGameUpdatesMutKeepPlacing(g, remaining, removedId) ==
    LET first(dflt) == IF Len(remaining) > 0 THEN remaining[1] ELSE dflt
        stillSeated == g.currentPlayer \notin {Null, ""} /\ g.currentPlayer \in Range(remaining)
        u1 == [g EXCEPT !.turnOrder = remaining]
        u2 == IF g.hostUid = removedId THEN [u1 EXCEPT !.hostUid = first(NoHost)] ELSE u1
        u3 == IF ~stillSeated
              THEN [u2 EXCEPT !.currentPlayer = first(Null), !.turnPhase = "action"]
              ELSE u2
    IN IF Len(remaining) = 0
       THEN [u3 EXCEPT !.status = "lobby", !.round = 0, !.currentPlayer = Null,
                       !.hostUid = NoHost]
       ELSE u3

buildSeatRemovalGameUpdates(g, remaining, removedId) ==
    LET newTurnOrder == remaining
        first(dflt) == IF Len(newTurnOrder) > 0 THEN newTurnOrder[1] ELSE dflt
        currentPlayerStillSeated ==
            /\ g.currentPlayer \notin {Null, ""}
            /\ g.currentPlayer \in Range(newTurnOrder)
        u1 == [g EXCEPT !.turnOrder = newTurnOrder]
        u2 == IF g.hostUid = removedId THEN [u1 EXCEPT !.hostUid = first(NoHost)] ELSE u1
        u3 == IF ~currentPlayerStillSeated
              THEN [u2 EXCEPT !.currentPlayer = first(Null), !.turnPhase = "action"]
              ELSE u2
        u4 == IF g.longestRoadOwner = removedId THEN [u3 EXCEPT !.longestRoadOwner = Null] ELSE u3
        u5 == IF g.largestArmyOwner = removedId THEN [u4 EXCEPT !.largestArmyOwner = Null] ELSE u4
        u6 == IF g.status = "placing" /\ Len(newTurnOrder) < MAX_PLAYERS
              THEN [u5 EXCEPT !.status = "lobby", !.round = 0]
              ELSE u5
        u7 == IF Len(newTurnOrder) = 0
              THEN [u6 EXCEPT !.status = "lobby", !.round = 0,
                              !.currentPlayer = Null, !.hostUid = NoHost]
              ELSE u6
    IN u7

updateBoardAfterRemovalMutKeepPieces(b, remainingPlayerIds, removedId) ==
    [roads |-> b.roads, settlements |-> b.settlements, cities |-> b.cities,
     longestRoadCache |-> createInitialLongestRoadCache(remainingPlayerIds),
     dotted |-> {}]

\* The board document is read inside the transaction and always exists, so the
\* `board ?? createInitialBoard()` fallback is not taken.  The result replaces
\* the whole document (tx.set without merge).
updateBoardAfterRemoval(b, remainingPlayerIds, removedId) ==
    [roads |-> {p \in b.roads : p.owner # removedId},
     settlements |-> {p \in b.settlements : p.owner # removedId},
     cities |-> {p \in b.cities : p.owner # removedId},
     longestRoadCache |-> createInitialLongestRoadCache(remainingPlayerIds),
     dotted |-> {}]

removePlayerDuringLobbyMutKeepHand(d, pls, playerId) ==
    LET remaining == remainingPlayers(pls, playerId)
        reindexed == reindexPlayerOrders(d.players, remaining)
    IN [d EXCEPT
          !.players = Restrict(reindexed, (DOMAIN reindexed) \ {playerId}),
          !.game = buildSeatRemovalGameUpdates(d.game, remaining, playerId),
          !.config.initialPlacementOrder = <<>>]

removePlayerDuringLobby(d, pls, playerId) ==
    LET remaining == remainingPlayers(pls, playerId)
        reindexed == reindexPlayerOrders(d.players, remaining)
    IN [d EXCEPT
          !.players = Restrict(reindexed, (DOMAIN reindexed) \ {playerId}),
          !.hands = Restrict(d.hands, (DOMAIN d.hands) \ {playerId}),
          !.game = buildSeatRemovalGameUpdates(d.game, remaining, playerId),
          !.board.longestRoadCache =
              MergeLongestRoadCache(d.board.longestRoadCache,
                                    createInitialLongestRoadCache(remaining)),
          !.config.initialPlacementOrder = <<>>]

\* db.runTransaction: the buffered writes are applied together when the body
\* returns, and none of them when it throws.
runTransactionMutPartial(d, r) == r.docs

runTransaction(d, r) == IF r.err = "ok" THEN r.docs ELSE d

\* ---------------------------------------------------- transaction bodies
\* gamesCreate: one write batch creating every document of the room.
gamesCreateBatch(uid) ==
    LET baseTurnOrder == <<uid>>
        cfg == generateInitialConfig
    IN [exists |-> TRUE,
        game |-> [status |-> "lobby", hostUid |-> uid, currentPlayer |-> uid, round |-> 0,
                  turnOrder |-> baseTurnOrder, turnPhase |-> "action",
                  largestArmyOwner |-> Null, longestRoadOwner |-> Null,
                  winner |-> NullWinner],
        players |-> [id \in {uid} |->
                       [uid |-> uid, color |-> "red", order |-> 0, pointsPublic |-> 0,
                        hasLargestArmy |-> FALSE, hasLongestRoad |-> FALSE]],
        hands |-> [id \in {uid} |-> createEmptyHand],
        board |-> [createInitialBoard EXCEPT
                     !.longestRoadCache = createInitialLongestRoadCache(baseTurnOrder)],
        config |-> [initialPlacementOrder |-> cfg.initialPlacementOrder],
        bank |-> createInitialBank(cfg.devDeckSize),
        trade |-> createInitialTrade]

\* The checks gamesJoin makes before it writes, in the order it makes them:
\* the error thrown, or "ok".
joinChecksMutFullFirst(d, uid) ==
    IF ~d.exists THEN "not-found"
    ELSE IF d.game.status = "ended" THEN "failed-precondition"
    ELSE IF Cardinality(DOMAIN d.players) >= MAX_PLAYERS THEN "resource-exhausted"
    ELSE IF uid \in DOMAIN d.players THEN "already-exists"
    ELSE "ok"

joinChecks(d, uid) ==
    IF ~d.exists THEN "not-found"
    ELSE IF d.game.status = "ended" THEN "failed-precondition"
    ELSE IF uid \in DOMAIN d.players THEN "already-exists"
    ELSE IF Cardinality(DOMAIN d.players) >= MAX_PLAYERS THEN "resource-exhausted"
    ELSE "ok"

gamesJoinTx(d, uid) ==
    LET g == d.game
        snapIds == DOMAIN d.players
    IN IF joinChecks(d, uid) # "ok" THEN Res(joinChecks(d, uid), d)
       ELSE
         LET pls == getPlayerDocs(d.players)
             usedColors == {d.players[id].color : id \in snapIds}
             color == nextAvailableColor(usedColors)
         IN IF color = Null THEN Res("internal", d)
            ELSE
              LET order == Len(pls)
                  updatedTurnOrder ==
                      Append(SelectSeq(g.turnOrder,
                                 LAMBDA id : \E p \in snapIds : d.players[p].uid = id),
                             uid)
                  playerDoc == [uid |-> uid, color |-> color, order |-> order,
                                pointsPublic |-> 0, hasLargestArmy |-> FALSE,
                                hasLongestRoad |-> FALSE]
                  full == Len(updatedTurnOrder) = MAX_PLAYERS
                  g1 == [g EXCEPT !.turnOrder = updatedTurnOrder]
                  g2 == IF full
                        THEN [g1 EXCEPT !.status = "placing",
                                        !.currentPlayer = updatedTurnOrder[1],
                                        !.round = 0]
                        ELSE g1
              IN Res("ok",
                   [d EXCEPT
                      !.players = [id \in snapIds \cup {uid} |->
                                      IF id = uid THEN playerDoc ELSE d.players[id]],
                      !.hands = [id \in (DOMAIN d.hands) \cup {uid} |->
                                      IF id = uid THEN createEmptyHand ELSE d.hands[id]],
                      !.game = g2,
                      \* set(..., {merge: true}) with the key "longestRoadCache.<uid>":
                      \* set() takes a key as one field name, so this writes a top-level
                      \* field of the board document and leaves the nested map as it was.
                      !.board.dotted = d.board.dotted \cup {uid},
                      !.config.initialPlacementOrder =
                          IF full THEN createInitialPlacementOrder(updatedTurnOrder)
                          ELSE d.config.initialPlacementOrder])

\* The win check of a resignation after the start, applied to the updates
\* buildSeatRemovalGameUpdates returned.
resignWinCheckMutScoreZero(gu, g, remaining, pl) ==
    IF Len(remaining) = 0
    THEN [gu EXCEPT !.status = "ended", !.round = g.round,
                    !.currentPlayer = Null, !.winner = NullWinner]
    ELSE IF Len(remaining) = 1
    THEN [gu EXCEPT !.status = "ended", !.round = g.round,
                    !.currentPlayer = remaining[1], !.turnPhase = "action",
                    !.winner = [playerId |-> remaining[1], points |-> 0]]
    ELSE gu

resignWinCheck(gu, g, remaining, pl) ==
    IF Len(remaining) = 0
    THEN [gu EXCEPT !.status = "ended", !.round = g.round,
                    !.currentPlayer = Null, !.winner = NullWinner]
    ELSE IF Len(remaining) = 1
    THEN [gu EXCEPT !.status = "ended", !.round = g.round,
                    !.currentPlayer = remaining[1], !.turnPhase = "action",
                    !.winner = [playerId |-> remaining[1],
                                points |-> pl[remaining[1]].pointsPublic]]
    ELSE gu

\* gameIntent, case "RESIGN".  After the lobby branch the body buffers the
\* reindexing updates and the two deletes and only then reads the board
\* document (tx.get).  A store that refuses a read which follows a buffered
\* write makes that call throw; one that serves it lets the body go on.  Both
\* outcomes are kept: readRefused says which one the store produces.
resignTx(d, uid, readRefused) ==
    LET g == d.game
        pls == getPlayerDocs(d.players)
    IN IF ~d.exists THEN Res("not-found", d)
       ELSE IF ~ensurePlayerInGame(pls, uid) THEN Res("failed-precondition", d)
       ELSE IF g.status = "lobby" THEN Res("ok", removePlayerDuringLobby(d, pls, uid))
       ELSE
         LET remaining == remainingPlayers(pls, uid)
             reindexed == reindexPlayerOrders(d.players, remaining)
             buffered == [d EXCEPT
                            !.players = Restrict(reindexed, (DOMAIN reindexed) \ {uid}),
                            !.hands = Restrict(d.hands, (DOMAIN d.hands) \ {uid})]
             updatedBoard == updateBoardAfterRemoval(d.board, remaining, uid)
             gu == buildSeatRemovalGameUpdates(g, remaining, uid)
             gameUpdates == resignWinCheck(gu, g, remaining, d.players)
         IN IF readRefused THEN Res("internal", buffered)
            ELSE Res("ok",
                   [buffered EXCEPT
                      !.board = updatedBoard,
                      !.game = gameUpdates,
                      !.trade = createInitialTrade])

\* gameIntent: the switch on intent.type.  RESIGN runs its transaction; every
\* other type reaches the default branch, which throws before anything is
\* read or written.
IntentTypes ==
    {"ROLL_DICE", "BUILD_ROAD", "BUILD_SETTLEMENT", "BUILD_CITY", "BUY_DEV", "PLAY_DEV",
     "MOVE_ROBBER", "TRADE_BANK", "TRADE_PLAYER", "ACCEPT_TRADE", "END_TURN", "RESIGN"}

gameIntentTxMutEndTurnResigns(d, uid, type, readRefused) ==
    IF type \in {"RESIGN", "END_TURN"} THEN resignTx(d, uid, readRefused)
    ELSE Res("unimplemented", d)

gameIntentTx(d, uid, type, readRefused) ==
    IF type = "RESIGN" THEN resignTx(d, uid, readRefused)
    ELSE Res("unimplemented", d)

\* gameReset: the update of one player document and the status it commits.
resetPlayerMutKeepPoints(pl, index) ==
    [pl EXCEPT !.order = index, !.hasLargestArmy = FALSE, !.hasLongestRoad = FALSE]

resetPlayer(pl, index) ==
    [pl EXCEPT !.order = index, !.pointsPublic = 0,
               !.hasLargestArmy = FALSE, !.hasLongestRoad = FALSE]

resetStatusMutAlwaysLobby(turnOrder) == "lobby"

resetStatus(turnOrder) == IF Len(turnOrder) = MAX_PLAYERS THEN "placing" ELSE "lobby"

\* The writes of gameReset once the caller is known to be the host.
gameResetWrites(d) ==
    LET g == d.game
        cfg == generateInitialConfig
        pls == getPlayerDocs(d.players)
        turnOrder == pls
        nextStatus == resetStatus(turnOrder)
        nextCurrentPlayer == IF Len(turnOrder) > 0 THEN turnOrder[1] ELSE Null
    IN [d EXCEPT
          !.players = [id \in DOMAIN d.players |->
                         resetPlayer(d.players[id], IndexOf(pls, id) - 1)],
          !.game = [g EXCEPT !.status = nextStatus,
                             !.currentPlayer = nextCurrentPlayer,
                             !.round = 0, !.turnOrder = turnOrder,
                             !.turnPhase = "action",
                             !.largestArmyOwner = Null, !.longestRoadOwner = Null,
                             !.winner = NullWinner],
          !.hands = [id \in (DOMAIN d.hands) \cup Range(turnOrder) |->
                         IF id \in Range(turnOrder) THEN createEmptyHand
                         ELSE d.hands[id]],
          !.board = [createInitialBoard EXCEPT
                       !.longestRoadCache = createInitialLongestRoadCache(turnOrder)],
          !.config = [initialPlacementOrder |->
                         IF nextStatus = "placing"
                         THEN createInitialPlacementOrder(turnOrder) ELSE <<>>],
          !.bank = createInitialBank(cfg.devDeckSize),
          !.trade = createInitialTrade]

gameResetTxMutNoHostCheck(d, uid) ==
    IF ~d.exists THEN Res("not-found", d)
    ELSE Res("ok", gameResetWrites(d))

gameResetTx(d, uid) ==
    IF ~d.exists THEN Res("not-found", d)
    ELSE IF d.game.hostUid # uid THEN Res("permission-denied", d)
    ELSE Res("ok", gameResetWrites(d))

gameLeaveTxMutNoStatusCheck(d, uid) ==
    LET pls == getPlayerDocs(d.players)
    IN IF ~d.exists THEN Res("not-found", d)
       ELSE IF ~ensurePlayerInGame(pls, uid) THEN Res("failed-precondition", d)
       ELSE Res("ok", removePlayerDuringLobby(d, pls, uid))

gameLeaveTx(d, uid) ==
    LET g == d.game
        pls == getPlayerDocs(d.players)
    IN IF ~d.exists THEN Res("not-found", d)
       ELSE IF g.status # "lobby" THEN Res("failed-precondition", d)
       ELSE IF ~ensurePlayerInGame(pls, uid) THEN Res("failed-precondition", d)
       ELSE Res("ok", removePlayerDuringLobby(d, pls, uid))

gameKickTxMutNoHostCheck(d, uid, targetId) ==
    LET pls == getPlayerDocs(d.players)
    IN IF ~d.exists THEN Res("not-found", d)
       ELSE IF d.game.status # "lobby" THEN Res("failed-precondition", d)
       ELSE IF uid = targetId THEN Res("failed-precondition", d)
       ELSE IF ~ensurePlayerInGame(pls, targetId) THEN Res("failed-precondition", d)
       ELSE Res("ok", removePlayerDuringLobby(d, pls, targetId))

gameKickTxMutNoSelfCheck(d, uid, targetId) ==
    LET pls == getPlayerDocs(d.players)
    IN IF ~d.exists THEN Res("not-found", d)
       ELSE IF d.game.hostUid # uid THEN Res("permission-denied", d)
       ELSE IF d.game.status # "lobby" THEN Res("failed-precondition", d)
       ELSE IF ~ensurePlayerInGame(pls, targetId) THEN Res("failed-precondition", d)
       ELSE Res("ok", removePlayerDuringLobby(d, pls, targetId))

gameKickTx(d, uid, targetId) ==
    LET g == d.game
        pls == getPlayerDocs(d.players)
    IN IF ~d.exists THEN Res("not-found", d)
       ELSE IF g.hostUid # uid THEN Res("permission-denied", d)
       ELSE IF g.status # "lobby" THEN Res("failed-precondition", d)
       ELSE IF uid = targetId THEN Res("failed-precondition", d)
       ELSE IF ~ensurePlayerInGame(pls, targetId) THEN Res("failed-precondition", d)
       ELSE Res("ok", removePlayerDuringLobby(d, pls, targetId))

\* --------------------------------------- store calls of a transaction
\* The calls a transaction body makes on tx, in the order it makes them, up
\* to the throw that ends it: tx.get is a read; tx.set, tx.update and
\* tx.delete are buffered writes.
Call(kind, doc) == [kind |-> kind, doc |-> doc]

MapSeq(ids, kind, collection) ==
    [i \in 1..Len(ids) |-> Call(kind, <<collection, ids[i]>>)]

reindexPlayerOrdersCalls(pl, remaining) ==
    MapSeq(SelectSeq(remaining, LAMBDA id : pl[id].order # IndexOf(remaining, id) - 1),
           "update", "players")

removePlayerDuringLobbyCalls(d, pls, playerId) ==
    reindexPlayerOrdersCalls(d.players, remainingPlayers(pls, playerId))
    \o <<Call("delete", <<"players", playerId>>), Call("delete", <<"hands", playerId>>),
         Call("update", "game"), Call("set", "board"), Call("set", "config")>>

gamesJoinCalls(d, uid) ==
    LET err == joinChecks(d, uid)
        color == nextAvailableColor({d.players[id].color : id \in DOMAIN d.players})
        full == Len(gamesJoinTx(d, uid).docs.game.turnOrder) = MAX_PLAYERS
    IN <<Call("get", "game")>>
       \o (IF err \in {"not-found", "failed-precondition"} THEN <<>>
           ELSE <<Call("get", "players")>>
                \o (IF err # "ok" \/ color = Null THEN <<>>
                    ELSE <<Call("set", <<"players", uid>>), Call("set", <<"hands", uid>>),
                           Call("update", "game"), Call("set", "board")>>
                         \o (IF full THEN <<Call("update", "game"), Call("set", "config")>>
                             ELSE <<>>)))

resignCalls(d, uid) ==
    LET pls == getPlayerDocs(d.players)
        remaining == remainingPlayers(pls, uid)
    IN <<Call("get", "game")>>
       \o (IF ~d.exists THEN <<>>
           ELSE <<Call("get", "players")>>
                \o (IF ~ensurePlayerInGame(pls, uid) THEN <<>>
                    ELSE IF d.game.status = "lobby"
                    THEN removePlayerDuringLobbyCalls(d, pls, uid)
                    ELSE reindexPlayerOrdersCalls(d.players, remaining)
                         \o <<Call("delete", <<"players", uid>>),
                              Call("delete", <<"hands", uid>>),
                              Call("get", "board"), Call("set", "board"),
                              Call("update", "game"), Call("set", "trade")>>))

gameResetCalls(d, uid) ==
    LET pls == getPlayerDocs(d.players)
    IN <<Call("get", "game")>>
       \o (IF ~d.exists \/ d.game.hostUid # uid THEN <<>>
           ELSE <<Call("get", "players")>>
                \o MapSeq(pls, "update", "players")
                \o <<Call("update", "game")>>
                \o MapSeq(pls, "set", "hands")
                \o <<Call("set", "board"), Call("set", "config"), Call("set", "bank"),
                     Call("set", "trade")>>)

gameLeaveCalls(d, uid) ==
    LET pls == getPlayerDocs(d.players)
    IN <<Call("get", "game")>>
       \o (IF ~d.exists \/ d.game.status # "lobby" THEN <<>>
           ELSE <<Call("get", "players")>>
                \o (IF ~ensurePlayerInGame(pls, uid) THEN <<>>
                    ELSE removePlayerDuringLobbyCalls(d, pls, uid)))

gameKickCalls(d, uid, targetId) ==
    LET pls == getPlayerDocs(d.players)
    IN <<Call("get", "game")>>
       \o (IF ~d.exists \/ d.game.hostUid # uid \/ d.game.status # "lobby" \/ uid = targetId
           THEN <<>>
           ELSE <<Call("get", "players")>>
                \o (IF ~ensurePlayerInGame(pls, targetId) THEN <<>>
                    ELSE removePlayerDuringLobbyCalls(d, pls, targetId)))

\* ----------------------------------------------------------------- actions
Store(d) ==
    /\ exists' = d.exists
    /\ game' = d.game
    /\ players' = d.players
    /\ hands' = d.hands
    /\ board' = d.board
    /\ config' = d.config
    /\ bank' = d.bank
    /\ trade' = d.trade

\* Ids are opaque strings the handlers only compare for equality, so the
\* identities take their seats in the order of AllIds, and an identity that
\* has given up its seat is not seated again: a later joiner is the next
\* identity.  Requests are sent by every seated identity and by the next one;
\* to every check of the handlers an identity that has given up its seat is
\* what the next one is, an id that is neither seated nor the host.
Known(u) == u \in DOMAIN players \/ UidIdx(u) = nSeated + 1
MaySeat(u) == UidIdx(u) = nSeated + 1

gamesCreate(uid) ==
    /\ ~exists
    /\ MaySeat(uid)
    /\ Store(gamesCreateBatch(uid))
    /\ nSeated' = nSeated + 1
    /\ UNCHANGED otherVars

gamesJoin(uid) ==
    /\ Known(uid)
    /\ LET r == gamesJoinTx(Docs, uid)
       IN /\ r.err = "ok" => MaySeat(uid)
          /\ Store(runTransaction(Docs, r))
          /\ nSeated' = IF r.err = "ok" THEN nSeated + 1 ELSE nSeated
    /\ UNCHANGED otherVars

gameIntentResign(uid) ==
    /\ Known(uid)
    /\ \E readRefused \in BOOLEAN :
          LET r == gameIntentTx(Docs, uid, "RESIGN", readRefused)
          IN Store(runTransaction(Docs, r))
    /\ UNCHANGED <<nSeated, otherVars>>

gameReset(uid) ==
    /\ Known(uid)
    /\ LET r == gameResetTx(Docs, uid)
       IN Store(runTransaction(Docs, r))
    /\ UNCHANGED <<nSeated, otherVars>>

gameLeave(uid) ==
    /\ Known(uid)
    /\ LET r == gameLeaveTx(Docs, uid)
       IN Store(runTransaction(Docs, r))
    /\ UNCHANGED <<nSeated, otherVars>>

gameKick(uid, targetId) ==
    /\ Known(uid)
    /\ Known(targetId)
    /\ LET r == gameKickTx(Docs, uid, targetId)
       IN Store(runTransaction(Docs, r))
    /\ UNCHANGED <<nSeated, otherVars>>

\* The gameplay rule engine (dice, building, turn advance) is not implemented
\* in the functions; these two steps stand for what it is specified to do to
\* the lifecycle state: move a room from placing to playing and put pieces of
\* seated players on the board.
TotalPieces == Cardinality(board.roads) + Cardinality(board.settlements) + Cardinality(board.cities)

RuleEngineStartPlaying ==
    /\ exists
    /\ game.status = "placing"
    /\ game' = [game EXCEPT !.status = "playing"]
    /\ UNCHANGED <<exists, players, hands, board, config, bank, trade, nSeated, otherVars>>

\* A piece is named by its owner and a number counting that owner's pieces of
\* the kind.
NextPieceNo(pieces, owner) == Cardinality({p \in pieces : p.owner = owner}) + 1

RuleEnginePlace(kind, owner) ==
    /\ exists
    /\ game.status \in {"placing", "playing"}
    /\ owner \in DOMAIN players
    /\ TotalPieces < MaxPieces
    /\ board' = [board EXCEPT ![kind] = @ \cup {[at |-> NextPieceNo(@, owner), owner |-> owner]}]
    /\ UNCHANGED <<exists, game, players, hands, config, bank, trade, nSeated, otherVars>>

\* No room: the state before gamesCreate.
NoRoom ==
    /\ exists = FALSE
    /\ game = [status |-> "lobby", hostUid |-> NoHost, currentPlayer |-> Null, round |-> 0,
               turnOrder |-> <<>>, turnPhase |-> "action",
               largestArmyOwner |-> Null, longestRoadOwner |-> Null, winner |-> NullWinner]
    /\ players = EmptyMap
    /\ hands = EmptyMap
    /\ board = createInitialBoard
    /\ config = [initialPlacementOrder |-> <<>>]
    /\ bank = createInitialBank(DevDeckSize)
    /\ trade = createInitialTrade
    /\ nSeated = 0

\* Nothing in flight outside the room: no gamesCreate invocation, no log.
CodeIdle ==
    /\ rooms = {}
    /\ calls = <<>>

LogIdle ==
    /\ logs = <<>>
    /\ logCalls = {}

GenIdle ==
    /\ pools = InitialPools
    /\ runs = <<>>

\* No transaction of a concurrent callable is open.
TxIdle == txs = <<>>

OtherIdle == CodeIdle /\ LogIdle /\ GenIdle /\ TxIdle

Init == NoRoom /\ OtherIdle

Next ==
    \/ \E uid \in Users : gamesCreate(uid)
    \/ \E uid \in Users : gamesJoin(uid)
    \/ \E uid \in Users : gameIntentResign(uid)
    \/ \E uid \in Users : gameReset(uid)
    \/ \E uid \in Users : gameLeave(uid)
    \/ \E uid, targetId \in Users : gameKick(uid, targetId)
    \/ RuleEngineStartPlaying
    \/ \E kind \in {"roads", "settlements", "cities"}, owner \in Users :
          RuleEnginePlace(kind, owner)

Spec == Init /\ [][Next]_vars

\* ------------------------------------------------- room code allocation
\* gamesCreate awaits createUniqueRoomCode and then commits its write batch.
\* The probe of createUniqueRoomCode is a query outside any transaction, so
\* invocations of gamesCreate interleave at every await: between two probes
\* and between the last probe and the commit of the batch.
NumCalls == 2          \* invocations of gamesCreate running concurrently
NumCodes == 2          \* codes generateRoomCode draws from

CODE_GENERATION_MAX_ATTEMPTS == 8

Calls == 1..NumCalls
Codes == 1..NumCodes
NoCode == 0

\* db.collection("games").where("code", "==", candidate).limit(1).get()
existingWithCode(rs, candidate) == {r \in rs : r.code = candidate}

createUniqueRoomCodeAttemptMutExtraProbe(call, candidate, rs) ==
    IF existingWithCode(rs, candidate) = {}
    THEN [call EXCEPT !.pc = "commit", !.attempt = @ + 1, !.code = candidate]
    ELSE IF call.attempt + 1 <= CODE_GENERATION_MAX_ATTEMPTS
         THEN [call EXCEPT !.attempt = @ + 1, !.code = candidate]
         ELSE [call EXCEPT !.pc = "resource-exhausted", !.attempt = @ + 1,
                           !.code = candidate]

\* One pass of the loop of createUniqueRoomCode; call.attempt counts the
\* passes made.  The pass that finds the candidate unused returns it; the
\* eighth pass that finds its candidate taken leaves the loop, and the
\* HttpsError("resource-exhausted") after the loop ends the invocation.
createUniqueRoomCodeAttempt(call, candidate, rs) ==
    IF existingWithCode(rs, candidate) = {}
    THEN [call EXCEPT !.pc = "commit", !.attempt = @ + 1, !.code = candidate]
    ELSE IF call.attempt + 1 < CODE_GENERATION_MAX_ATTEMPTS
         THEN [call EXCEPT !.attempt = @ + 1, !.code = candidate]
         ELSE [call EXCEPT !.pc = "resource-exhausted", !.attempt = @ + 1,
                           !.code = candidate]

\* generateRoomCode and the query on it.
createUniqueRoomCode(c) ==
    /\ calls[c].pc = "probe"
    /\ \E candidate \in Codes :
          calls' = [calls EXCEPT ![c] = createUniqueRoomCodeAttempt(@, candidate, rooms)]
    /\ UNCHANGED <<rooms, roomVars, logVars, genVars, txVars>>

\* batch.commit() of gamesCreate: the game document, under a fresh document
\* id, with the code createUniqueRoomCode returned.
gamesCreateCommit(c) ==
    /\ calls[c].pc = "commit"
    /\ rooms' = rooms \cup {[id |-> c, code |-> calls[c].code]}
    /\ calls' = [calls EXCEPT ![c].pc = "done"]
    /\ UNCHANGED <<roomVars, logVars, genVars, txVars>>

CodeInit ==
    /\ NoRoom
    /\ LogIdle
    /\ GenIdle
    /\ TxIdle
    /\ rooms = {}
    /\ calls = [c \in Calls |-> [pc |-> "probe", attempt |-> 0, code |-> NoCode]]

CodeNext ==
    \/ \E c \in Calls : createUniqueRoomCode(c)
    \/ \E c \in Calls : gamesCreateCommit(c)

\* Every invocation runs to completion: none of its awaits blocks for ever.
CodeSpec ==
    /\ CodeInit
    /\ [][CodeNext]_vars
    /\ \A c \in Calls : WF_vars(createUniqueRoomCode(c)) /\ WF_vars(gamesCreateCommit(c))


\* ------------------------------------------------------------- audit log
\* Every callable awaits its transaction (gamesCreate: its batch) and only
\* then awaits logGameEvent, which adds one document to the logs
\* sub-collection.  An HttpsError thrown by the transaction ends the callable
\* before logGameEvent is reached.  logGameEvent has no try/catch: when its
\* write fails the callable rejects, after the transaction has committed.
MaxLog == 4            \* callables past their transaction, logged or not

LogEntry(actor, action, tag, targetId) ==
    [actor |-> actor, action |-> action, tag |-> tag, targetId |-> targetId]

logAfterMutAlways(r, entry) == {entry}

\* await db.runTransaction(...); await logGameEvent(gameRef, entry)
logAfter(r, entry) == IF r.err = "ok" THEN {entry} ELSE {}

CanLog(entry) ==
    /\ Cardinality(logCalls) + Len(logs) < MaxLog
    /\ \A c \in logCalls : c.entry # entry

Invoke(r, entry) ==
    /\ CanLog(entry)
    /\ Store(runTransaction(Docs, r))
    /\ logCalls' = logCalls \cup {[entry |-> e, pc |-> "log"] : e \in logAfter(r, entry)}
    /\ UNCHANGED <<logs, codeVars, genVars, txVars>>

gamesCreateCall(uid) ==
    /\ ~exists
    /\ MaySeat(uid)
    /\ Invoke(Res("ok", gamesCreateBatch(uid)), LogEntry(uid, "join", "name", Null))
    /\ nSeated' = nSeated + 1

gamesJoinCall(uid) ==
    /\ Known(uid)
    /\ LET r == gamesJoinTx(Docs, uid)
       IN /\ r.err = "ok" => MaySeat(uid)
          /\ Invoke(r, LogEntry(uid, "join", "name", Null))
          /\ nSeated' = IF r.err = "ok" THEN nSeated + 1 ELSE nSeated

gameIntentCall(uid, type) ==
    /\ Known(uid)
    /\ \E readRefused \in BOOLEAN :
          Invoke(gameIntentTx(Docs, uid, type, readRefused),
                 LogEntry(uid, "leave", "resigned", Null))
    /\ UNCHANGED nSeated

gameResetCall(uid) ==
    /\ Known(uid)
    /\ Invoke(gameResetTx(Docs, uid), LogEntry(uid, "reset", "none", Null))
    /\ UNCHANGED nSeated

gameLeaveCall(uid) ==
    /\ Known(uid)
    /\ Invoke(gameLeaveTx(Docs, uid), LogEntry(uid, "leave", "voluntary", Null))
    /\ UNCHANGED nSeated

gameKickCall(uid, targetId) ==
    /\ Known(uid)
    /\ Known(targetId)
    /\ Invoke(gameKickTx(Docs, uid, targetId), LogEntry(uid, "leave", "kicked", targetId))
    /\ UNCHANGED nSeated

\* logGameEvent: logRef.set({ts, ...entry}) succeeds.
logGameEvent(c) ==
    /\ c \in logCalls
    /\ c.pc = "log"
    /\ logs' = Append(logs, c.entry)
    /\ logCalls' = logCalls \ {c}
    /\ UNCHANGED <<roomVars, codeVars, genVars, txVars>>

\* logGameEvent: the write fails or is lost, and the callable rejects.
logGameEventFails(c) ==
    /\ c \in logCalls
    /\ c.pc = "log"
    /\ logCalls' = (logCalls \ {c}) \cup {[c EXCEPT !.pc = "failed"]}
    /\ UNCHANGED <<logs, roomVars, codeVars, genVars, txVars>>

LogInit == NoRoom /\ OtherIdle

LogNext ==
    \/ \E uid \in Users : gamesCreateCall(uid)
    \/ \E uid \in Users : gamesJoinCall(uid)
    \/ \E uid \in Users, type \in IntentTypes : gameIntentCall(uid, type)
    \/ \E uid \in Users : gameResetCall(uid)
    \/ \E uid \in Users : gameLeaveCall(uid)
    \/ \E uid, targetId \in Users : gameKickCall(uid, targetId)
    \/ \E c \in logCalls : logGameEvent(c)
    \/ \E c \in logCalls : logGameEventFails(c)
    \/ RuleEngineStartPlaying

LogSpec == LogInit /\ [][LogNext]_vars


\* ------------------------------------------- join into a drifted room
\* gamesJoin rebuilds turnOrder from the turnOrder it reads, whatever that
\* is.  The rooms here are those of one to three seated players in the lobby
\* whose stored turnOrder is not an ordering of the seated ids: it holds an
\* id without a seat, lacks a seated id, or repeats one.
MaxDrift == 3          \* longest stored turnOrder of a drifted room

RECURSIVE SeatedDocs(_)
SeatedDocs(k) ==
    IF k = 1 THEN gamesCreateBatch(AllIds[1])
    ELSE gamesJoinTx(SeatedDocs(k - 1), AllIds[k]).docs

DriftedOrders(k) ==
    {order \in UNION {[1..n -> Users] : n \in 0..MaxDrift} :
        Len(order) # k \/ Range(order) # {AllIds[i] : i \in 1..k}}

DriftInit ==
    /\ \E k \in 1..(MAX_PLAYERS - 1) :
          /\ nSeated = k
          /\ \E order \in DriftedOrders(k) :
                LET d == [SeatedDocs(k) EXCEPT !.game.turnOrder = order]
                IN /\ exists = d.exists
                   /\ game = d.game
                   /\ players = d.players
                   /\ hands = d.hands
                   /\ board = d.board
                   /\ config = d.config
                   /\ bank = d.bank
                   /\ trade = d.trade
    /\ OtherIdle

DriftNext == \E uid \in Users : gamesJoin(uid)

DriftSpec == DriftInit /\ [][DriftNext]_vars


\* --------------------------------------------------- runs of the generator
\* generateMap and buildDevDeck are called with seeds createSeed returns, one
\* call after another in the same process, and generateInitialConfig calls
\* both for the Config document gamesCreate and gameReset write.
MaxRuns == 2           \* runs of the generator followed

Run(fn, seed, out) == [fn |-> fn, seed |-> seed, out |-> out]

generateMapRun(seed) ==
    /\ Len(runs) < MaxRuns
    /\ LET m == generateMap(pools, seed)
       IN /\ runs' = Append(runs, Run("generateMap", seed,
                                      [map |-> m.map, robberHex |-> m.robberHex]))
          /\ pools' = m.pools
    /\ UNCHANGED <<roomVars, codeVars, logVars, txVars>>

buildDevDeckRun(seed) ==
    /\ Len(runs) < MaxRuns
    /\ runs' = Append(runs, Run("buildDevDeck", seed, buildDevDeck(seed)))
    /\ UNCHANGED <<pools, roomVars, codeVars, logVars, txVars>>

\* generateInitialConfig, and the Config document written from it: as it is
\* by gamesCreate, with initialPlacementOrder set again by gameReset.
generateInitialConfigRun(mapSeed, devSeed) ==
    /\ Len(runs) < MaxRuns
    /\ LET c == generateInitialConfigFrom(pools, mapSeed, devSeed)
       IN /\ config' = c.config
          /\ runs' = Append(runs, Run("generateInitialConfig", <<mapSeed, devSeed>>,
                                      [robberHex |-> c.robberHex]))
          /\ pools' = c.pools
    /\ UNCHANGED <<exists, game, players, hands, board, bank, trade, nSeated,
                   codeVars, logVars, txVars>>

GenInit == NoRoom /\ OtherIdle

GenNext ==
    \/ \E seed \in Seeds : generateMapRun(seed)
    \/ \E seed \in Seeds : buildDevDeckRun(seed)
    \/ \E mapSeed, devSeed \in Seeds : generateInitialConfigRun(mapSeed, devSeed)

GenSpec == GenInit /\ [][GenNext]_vars

\* ---------------------------------------------- any stream of rng values
\* The generator under an rng that is not mulberry32: the values it returns
\* repeat a pattern of up to MaxPattern words out of DrawValues, which are
\* the least value 0, the greatest value below 1, and two in between.
MaxPattern == 3        \* longest pattern of rng values

DrawValues == {<<0, 0>>, <<21845, 21845>>, <<32768, 0>>, <<65535, 65535>>}

Patterns == UNION {[1..n -> DrawValues] : n \in 1..MaxPattern}

rngOfPattern(pattern, n) == [k \in 1..n |-> pattern[((k - 1) % Len(pattern)) + 1]]

generateMapStream(pattern) ==
    /\ runs = <<>>
    /\ LET m == generateMapWith(pools, rngOfPattern(pattern, MapDraws))
       IN /\ runs' = <<Run("generateMap", pattern, [map |-> m.map, robberHex |-> m.robberHex])>>
          /\ pools' = m.pools
    /\ UNCHANGED <<roomVars, codeVars, logVars, txVars>>

buildDevDeckStream(pattern) ==
    /\ runs = <<>>
    /\ runs' = <<Run("buildDevDeck", pattern,
                     buildDevDeckWith(rngOfPattern(pattern, DeckDraws)))>>
    /\ UNCHANGED <<pools, roomVars, codeVars, logVars, txVars>>

StreamInit == NoRoom /\ OtherIdle

StreamNext ==
    \/ \E pattern \in Patterns : generateMapStream(pattern)
    \/ \E pattern \in Patterns : buildDevDeckStream(pattern)

StreamSpec == StreamInit /\ [][StreamNext]_vars


\* ------------------------------------------------------- a game being played
\* The second specification starts from the room the fourth join commits and
\* lets the rule engine play: besides pieces it moves scores, awards, hands,
\* the bank, the trade and the turn, which no callable of the functions does.
\* Each step stands for the effect of one accepted gameplay intent on the
\* documents the lifecycle handlers read and rewrite; an intent is accepted
\* from the active player only.
MaxPlayed == 3         \* effects of play standing in the documents at once

RECURSIVE SumOver(_, _)
SumOver(f, S) ==
    IF S = {} THEN 0
    ELSE LET x == CHOOSE y \in S : TRUE IN f[x] + SumOver(f, S \ {x})

Played ==
    TotalPieces
    + SumOver([id \in DOMAIN players |-> players[id].pointsPublic], DOMAIN players)
    + (createInitialBank(DevDeckSize).resources - bank.resources)
    + (createInitialBank(DevDeckSize).devRemain - bank.devRemain)
    + (IF game.longestRoadOwner # Null THEN 1 ELSE 0)
    + (IF game.largestArmyOwner # Null THEN 1 ELSE 0)
    + (IF trade.phase # "idle" THEN 1 ELSE 0)
    + game.round

\* The active player, when the engine accepts an intent that adds to the play.
Active == game.currentPlayer

InTurn ==
    /\ exists
    /\ game.status = "playing"
    /\ Active \in DOMAIN players
    /\ Active \in DOMAIN hands

CanPlay == InTurn /\ Played < MaxPlayed

RuleEngineBuild(kind) ==
    /\ Played < MaxPlayed
    /\ exists
    /\ RuleEnginePlace(kind, Active)

RuleEngineScore ==
    /\ CanPlay
    /\ players' = [players EXCEPT ![Active].pointsPublic = @ + 1]
    /\ UNCHANGED <<exists, game, hands, board, config, bank, trade, nSeated, otherVars>>

RuleEngineAward(award) ==
    /\ CanPlay
    /\ IF award = "longestRoad"
       THEN /\ game.longestRoadOwner = Null
            /\ game' = [game EXCEPT !.longestRoadOwner = Active]
            /\ players' = [players EXCEPT ![Active].hasLongestRoad = TRUE]
       ELSE /\ game.largestArmyOwner = Null
            /\ game' = [game EXCEPT !.largestArmyOwner = Active]
            /\ players' = [players EXCEPT ![Active].hasLargestArmy = TRUE]
    /\ UNCHANGED <<exists, hands, board, config, bank, trade, nSeated, otherVars>>

RuleEngineTradeBank ==
    /\ CanPlay
    /\ hands' = [hands EXCEPT ![Active].resources = @ + 1]
    /\ bank' = [bank EXCEPT !.resources = @ - 1]
    /\ UNCHANGED <<exists, game, players, board, config, trade, nSeated, otherVars>>

RuleEngineBuyDev ==
    /\ CanPlay
    /\ hands' = [hands EXCEPT ![Active].devNewlyBought = @ + 1]
    /\ bank' = [bank EXCEPT !.devRemain = @ - 1]
    /\ UNCHANGED <<exists, game, players, board, config, trade, nSeated, otherVars>>

RuleEngineOfferTrade ==
    /\ CanPlay
    /\ trade.phase = "idle"
    /\ trade' = [phase |-> "offer", offer |-> Active]
    /\ UNCHANGED <<exists, game, players, hands, board, config, bank, nSeated, otherVars>>

\* The cached road length of the active player, written when the engine
\* recomputes it: here the number of that player's roads.
RuleEngineMeasureRoad ==
    /\ InTurn
    /\ LET n == Cardinality({r \in board.roads : r.owner = Active})
       IN /\ n > 0
          /\ board' = [board EXCEPT !.longestRoadCache =
                          [k \in (DOMAIN @) \cup {Active} |-> IF k = Active THEN n ELSE @[k]]]
    /\ UNCHANGED <<exists, game, players, hands, config, bank, trade, nSeated, otherVars>>

RuleEngineEndTurn ==
    /\ CanPlay
    /\ Active \in Range(game.turnOrder)
    /\ LET i == IndexOf(game.turnOrder, Active)
           next == game.turnOrder[(i % Len(game.turnOrder)) + 1]
       IN game' = [game EXCEPT !.currentPlayer = next, !.turnPhase = "dice",
                               !.round = @ + 1]
    /\ UNCHANGED <<exists, players, hands, board, config, bank, trade, nSeated, otherVars>>

RuleEngineRoll ==
    /\ InTurn
    /\ game.turnPhase = "dice"
    /\ game' = [game EXCEPT !.turnPhase = "action"]
    /\ UNCHANGED <<exists, players, hands, board, config, bank, trade, nSeated, otherVars>>

RuleEngineDeclareWinner ==
    /\ InTurn
    /\ game' = [game EXCEPT !.status = "ended",
                            !.winner = [playerId |-> Active,
                                        points |-> players[Active].pointsPublic]]
    /\ UNCHANGED <<exists, players, hands, board, config, bank, trade, nSeated, otherVars>>

\* The room as the joins of B, C and D after A's create leave it.
PlayInitDocs ==
    gamesJoinTx(gamesJoinTx(gamesJoinTx(gamesCreateBatch("A"), "B").docs, "C").docs, "D").docs

PlayInit ==
    /\ exists = PlayInitDocs.exists
    /\ game = PlayInitDocs.game
    /\ players = PlayInitDocs.players
    /\ hands = PlayInitDocs.hands
    /\ board = PlayInitDocs.board
    /\ config = PlayInitDocs.config
    /\ bank = PlayInitDocs.bank
    /\ trade = PlayInitDocs.trade
    /\ nSeated = MAX_PLAYERS
    /\ OtherIdle

PlayNext ==
    \/ \E uid \in Users : gameIntentResign(uid)
    \/ \E uid \in Users : gameReset(uid)
    \/ \E uid \in Users : gameLeave(uid)
    \/ \E uid, targetId \in Users : gameKick(uid, targetId)
    \/ RuleEngineStartPlaying
    \/ \E kind \in {"roads", "settlements", "cities"} : RuleEngineBuild(kind)
    \/ RuleEngineScore
    \/ \E award \in {"longestRoad", "largestArmy"} : RuleEngineAward(award)
    \/ RuleEngineTradeBank
    \/ RuleEngineBuyDev
    \/ RuleEngineOfferTrade
    \/ RuleEngineMeasureRoad
    \/ RuleEngineEndTurn
    \/ RuleEngineRoll
    \/ RuleEngineDeclareWinner

PlaySpec == PlayInit /\ [][PlayNext]_vars

\* ------------------------------------------------ concurrent transactions
\* db.runTransaction runs the body of a callable against the documents the
\* body reads and sends the buffered writes with the commit.  The store takes
\* the commit only when no document the body has read was written in
\* between; when one was, the body runs again from its first read.  A body
\* that throws ends the transaction with its error and sends nothing.
NoRead == [exists |-> FALSE]

Tx(op, uid, targetId) ==
    [op |-> op, uid |-> uid, targetId |-> targetId, pc |-> "start", attempt |-> 0,
     read |-> NoRead]

\* The body of the transaction of each callable.
TxBody(t, d, readRefused) ==
    CASE t.op = "join" -> gamesJoinTx(d, t.uid)
      [] t.op = "leave" -> gameLeaveTx(d, t.uid)
      [] t.op = "kick" -> gameKickTx(d, t.uid, t.targetId)
      [] t.op = "resign" -> gameIntentTx(d, t.uid, "RESIGN", readRefused)

\* What a body reads with tx.get: the game document and the players
\* collection, and in a resignation after the start the board document.
ReadBy(t, d) ==
    IF t.op = "resign" /\ d.game.status # "lobby"
    THEN [exists |-> d.exists, game |-> d.game, players |-> d.players, board |-> d.board]
    ELSE [exists |-> d.exists, game |-> d.game, players |-> d.players]

\* The documents as the body saw them: what it read, and for the rest what
\* its writes are applied to.
ViewOf(t, d) ==
    [k \in DOMAIN d |-> IF k \in DOMAIN t.read THEN t.read[k] ELSE d[k]]

conflictMutNever(t, d) == FALSE

\* A document the body read has been written since.
conflict(t, d) == t.read # ReadBy(t, d)

\* The body runs: it throws, or it returns with its writes buffered.
runTransactionBody(i) ==
    /\ txs[i].pc = "start"
    /\ \E readRefused \in BOOLEAN :
          LET t == txs[i]
              r == TxBody(t, Docs, readRefused)
          IN txs' = [txs EXCEPT ![i] =
                        IF r.err = "ok"
                        THEN [t EXCEPT !.pc = "commit", !.attempt = @ + 1,
                                       !.read = ReadBy(t, Docs)]
                        ELSE [t EXCEPT !.pc = r.err, !.attempt = @ + 1]]
    /\ UNCHANGED <<roomVars, codeVars, logVars, genVars>>

\* The commit: taken, or refused for a conflict, after which the body runs
\* again.
runTransactionCommit(i) ==
    /\ txs[i].pc = "commit"
    /\ LET t == txs[i]
       IN IF conflict(t, Docs)
          THEN /\ txs' = [txs EXCEPT ![i] = [t EXCEPT !.pc = "start", !.read = NoRead]]
               /\ UNCHANGED roomVars
          ELSE /\ Store(TxBody(t, ViewOf(t, Docs), FALSE).docs)
               /\ nSeated' = IF t.op = "join" THEN nSeated + 1 ELSE nSeated
               /\ txs' = [txs EXCEPT ![i] = [t EXCEPT !.pc = "ok", !.read = NoRead]]
    /\ UNCHANGED <<codeVars, logVars, genVars>>

RoomIs(d) ==
    /\ exists = d.exists
    /\ game = d.game
    /\ players = d.players
    /\ hands = d.hands
    /\ board = d.board
    /\ config = d.config
    /\ bank = d.bank
    /\ trade = d.trade

\* Joins racing for the free seats: a lobby of one to three players, and a
\* gamesJoin by every other identity, all in flight at once.
JoinRaceInit ==
    /\ \E k \in 1..(MAX_PLAYERS - 1) :
          /\ RoomIs(SeatedDocs(k))
          /\ nSeated = k
          /\ txs = [i \in 1..(NumUsers - k) |-> Tx("join", AllIds[k + i], Null)]
    /\ CodeIdle
    /\ LogIdle
    /\ GenIdle

RaceNext ==
    \/ \E i \in DOMAIN txs : runTransactionBody(i)
    \/ \E i \in DOMAIN txs : runTransactionCommit(i)

JoinRaceSpec == JoinRaceInit /\ [][RaceNext]_vars

\* Removals racing for one seat: a lobby of two or three players with host A,
\* a seated player P who is not the host, the host's gameKick of P together
\* with P's own gameLeave, RESIGN or both, and, where it cannot fill the room
\* (a full room leaves the lobby, and then no kick or leave commits), a
\* gamesJoin by the next identity.
RemovalsOf(P) ==
    {<<Tx("kick", AllIds[1], P)>> \o own :
        own \in {<<Tx("leave", P, Null)>>, <<Tx("resign", P, Null)>>,
                 <<Tx("leave", P, Null), Tx("resign", P, Null)>>}}

RemoveRaceInit ==
    /\ \E k \in 2..(MAX_PLAYERS - 1) :
          /\ RoomIs(SeatedDocs(k))
          /\ nSeated = k
          /\ \E P \in {AllIds[j] : j \in 2..k} :
                \E removals \in RemovalsOf(P) :
                   \/ txs = removals
                   \/ /\ k + 1 < MAX_PLAYERS
                      /\ txs = removals \o <<Tx("join", AllIds[k + 1], Null)>>
    /\ CodeIdle
    /\ LogIdle
    /\ GenIdle

RemoveRaceSpec == RemoveRaceInit /\ [][RaceNext]_vars


\* ================================================================== claims
SeatedIds == DOMAIN players
NumSeated == Cardinality(SeatedIds)
StatusRank(st) == CASE st = "lobby" -> 0 [] st = "placing" -> 1 [] st = "playing" -> 2 [] st = "ended" -> 3

\* Steps in which a seat is gained or given up.
JoinCommits(u) == gamesJoin(u) /\ u \notin SeatedIds /\ u \in DOMAIN players'
ResignCommits(u) == gameIntentResign(u) /\ u \in SeatedIds /\ u \notin DOMAIN players'

\* C1: in every state of an existing room, turnOrder holds no id twice and
\* the ids it holds are exactly the ids of the seated players.
C1_TurnOrderIsSeatPermutation ==
    exists =>
        /\ Range(game.turnOrder) = SeatedIds
        /\ Len(game.turnOrder) = NumSeated

\* A seat was given up in the middle of the order and a later joiner seated.
C1_Witness ==
    /\ exists
    /\ game.turnOrder = <<"A", "C", "E">>
    /\ SeatedIds = {"A", "C", "E"}

\* C2: the order values of the n seated players are exactly 0..n-1 and each
\* player's order is that player's index in turnOrder.
C2_OrdersDenseAndAligned ==
    exists =>
        /\ {players[id].order : id \in SeatedIds} = 0..(NumSeated - 1)
        /\ \A id \in SeatedIds :
              /\ players[id].order + 1 \in 1..Len(game.turnOrder)
              /\ game.turnOrder[players[id].order + 1] = id

\* A removal in lobby status has moved the players behind the removed seat up.
C2_Witness ==
    /\ exists
    /\ game.status = "lobby"
    /\ SeatedIds = {"B", "C"}
    /\ players["B"].order = 0
    /\ players["C"].order = 1

\* C3: no two seated players have the same color.
C3_ColorsDistinct ==
    \A a, b \in SeatedIds : a # b => players[a].color # players[b].color

\* The creator's seat was freed and its color given to a later joiner, with
\* all four seats taken.
C3_Witness ==
    /\ NumSeated = MAX_PLAYERS
    /\ \E u \in SeatedIds : u # "A" /\ players[u].color = "red"

\* C4: whenever at least one player is seated, hostUid is a seated id.
C4_HostIsSeated ==
    (exists /\ SeatedIds # {}) => game.hostUid \in SeatedIds

\* C5: status only moves forward along lobby, placing, playing, ended, except
\* in a step of gameReset.
C5_StatusOnlyAdvances ==
    [][game'.status # game.status =>
          \/ StatusRank(game'.status) > StatusRank(game.status)
          \/ \E u \in Users : gameReset(u)]_vars

\* C6: the keys of the board's longest-road cache are exactly the seated ids.
C6_CacheKeysAreSeated ==
    exists => DOMAIN board.longestRoadCache = SeatedIds

C8_FourthJoinStartsPlacing ==
    [][\A u \in (DOMAIN players') \ SeatedIds : JoinCommits(u) =>
          IF Cardinality(DOMAIN players') = MAX_PLAYERS
          THEN /\ game'.status = "placing"
               /\ game'.currentPlayer = game'.turnOrder[1]
               /\ game'.round = 0
               /\ config'.initialPlacementOrder = game'.turnOrder \o Reverse(game'.turnOrder)
               /\ (u = "D" =>
                     /\ game'.turnOrder = <<"A", "B", "C", "D">>
                     /\ config'.initialPlacementOrder =
                            <<"A", "B", "C", "D", "D", "C", "B", "A">>)
          ELSE game'.status = game.status]_vars

\* The state the fourth join of A, B, C, D commits.
C8_Witness ==
    /\ exists
    /\ nSeated = 4
    /\ game.status = "placing"
    /\ game.turnOrder = <<"A", "B", "C", "D">>
    /\ game.currentPlayer = "A"
    /\ config.initialPlacementOrder = <<"A", "B", "C", "D", "D", "C", "B", "A">>

\* C9: gamesJoin fails with failed-precondition in an ended room, otherwise
\* with already-exists for a seated caller (full room or not), otherwise with
\* resource-exhausted when four seats are taken; each leaves the players, the
\* hands and turnOrder as they were.
C9_JoinRejections ==
    \A u \in Users :
        exists =>
            LET r == gamesJoinTx(Docs, u)
                after == runTransaction(Docs, r)
            IN /\ game.status = "ended" => r.err = "failed-precondition"
               /\ (game.status # "ended" /\ u \in SeatedIds) => r.err = "already-exists"
               /\ (game.status # "ended" /\ u \notin SeatedIds /\ NumSeated = MAX_PLAYERS)
                     => r.err = "resource-exhausted"
               /\ r.err \in {"failed-precondition", "already-exists", "resource-exhausted"}
                     => /\ after.players = players
                        /\ after.hands = hands
                        /\ after.game.turnOrder = game.turnOrder

\* A full room that has not ended, with a fifth identity asking to join.
C9_Witness ==
    /\ exists
    /\ game.status # "ended"
    /\ NumSeated = MAX_PLAYERS
    /\ \E u \in Users \ SeatedIds : Known(u) /\ gamesJoinTx(Docs, u).err = "resource-exhausted"
    /\ \E u \in SeatedIds : gamesJoinTx(Docs, u).err = "already-exists"

\* C10: a resignation in status placing or playing that leaves at least two
\* players seated keeps status, makes turnOrder the remaining players in their
\* previous relative order and leaves no piece of the resigned player on the
\* board.
C10_ResignKeepsStatus ==
    [][\A u \in Users :
          (/\ ResignCommits(u)
           /\ game.status \in {"placing", "playing"}
           /\ Cardinality(DOMAIN players') >= 2)
          => /\ game'.status = game.status
             /\ game'.turnOrder = SelectSeq(game.turnOrder, LAMBDA id : id # u)
             /\ \A p \in board'.roads \cup board'.settlements \cup board'.cities :
                   p.owner # u]_vars

\* The ids whose seat a step takes away.
RemovedIds == SeatedIds \ DOMAIN players'

\* What a request would leave in the store.
After(r) == runTransaction(Docs, r)
Refused(r, code) == r.err = code /\ After(r) = Docs

\* C11: a resignation made when status is not lobby that leaves exactly one
\* player seated commits status ended and winner = that player's id with the
\* public score the player had when the resignation was made; one that leaves
\* no player commits status ended and winner null.
C11_LastStandingWins ==
    [][\A u \in RemovedIds :
          (ResignCommits(u) /\ game.status # "lobby") =>
              /\ Cardinality(DOMAIN players') = 1 =>
                    /\ game'.status = "ended"
                    /\ \A s \in DOMAIN players' :
                          game'.winner = [playerId |-> s, points |-> players[s].pointsPublic]
              /\ DOMAIN players' = {} =>
                    /\ game'.status = "ended"
                    /\ game'.winner = NullWinner]_vars

\* The last player standing of a played game, holding a score.
C11_Witness ==
    /\ exists
    /\ game.status = "ended"
    /\ NumSeated = 1
    /\ \E s \in SeatedIds :
          /\ players[s].pointsPublic > 0
          /\ game.winner = [playerId |-> s, points |-> players[s].pointsPublic]
          /\ game.currentPlayer = s

\* C12: the step that removes the last seated player commits an empty
\* turnOrder, an empty hostUid, currentPlayer null and no player or hand
\* document, with status lobby when the removal was made in lobby status and
\* ended when it was a resignation after the start.
C12_LastSeatVacated ==
    [][(SeatedIds # {} /\ DOMAIN players' = {}) =>
          /\ game'.turnOrder = <<>>
          /\ game'.hostUid = NoHost
          /\ game'.currentPlayer = Null
          /\ DOMAIN hands' = {}
          /\ game'.status = IF game.status = "lobby" THEN "lobby" ELSE "ended"]_vars

\* A room that was started and then given up by every player.
C12_Witness ==
    /\ exists
    /\ SeatedIds = {}
    /\ game.status = "ended"
    /\ nSeated >= MAX_PLAYERS

\* C13: gameKick by a caller who is not hostUid fails with permission-denied
\* in every status and leaves the target seated.
C13_KickByNonHost ==
    exists =>
        \A u \in Users, t \in Users :
            u # game.hostUid =>
                /\ Refused(gameKickTx(Docs, u, t), "permission-denied")
                /\ t \in SeatedIds => t \in DOMAIN After(gameKickTx(Docs, u, t)).players

\* In lobby status a seated player who is not the host names another seated
\* player who is not the host either.
C13_Witness ==
    /\ exists
    /\ game.status = "lobby"
    /\ \E u, t \in SeatedIds :
          /\ u # t
          /\ game.hostUid \in SeatedIds \ {u, t}
          /\ gameKickTx(Docs, u, t).err = "permission-denied"

\* C14 as stated: gameKick in which the host names themselves fails with
\* permission-denied and the host keeps the seat.
C14_SelfKickPermissionDenied ==
    (exists /\ game.hostUid \in SeatedIds) =>
        /\ gameKickTx(Docs, game.hostUid, game.hostUid).err = "permission-denied"
        /\ game.hostUid \in DOMAIN After(gameKickTx(Docs, game.hostUid, game.hostUid)).players

\* C14 amended: gameKick in which the host names themselves fails with
\* failed-precondition, in every status, and changes no document.
C14_SelfKickFailedPrecondition ==
    (exists /\ game.hostUid \in SeatedIds) =>
        Refused(gameKickTx(Docs, game.hostUid, game.hostUid), "failed-precondition")

\* A lobby of several players whose host is seated: the other checks of the
\* kick pass.
C14_Witness ==
    /\ exists
    /\ game.status = "lobby"
    /\ NumSeated >= 2
    /\ game.hostUid \in SeatedIds
    /\ gameKickTx(Docs, game.hostUid, game.hostUid).err = "failed-precondition"

\* C15: in status placing, playing or ended, gameLeave by a seated player and
\* gameKick by the host fail with failed-precondition and change nothing, and
\* no request other than a resignation takes a seat away.
C15_OnlyResignAfterStart ==
    (exists /\ game.status # "lobby") =>
        /\ \A u \in SeatedIds : Refused(gameLeaveTx(Docs, u), "failed-precondition")
        /\ \A t \in Users : game.hostUid \in SeatedIds =>
              Refused(gameKickTx(Docs, game.hostUid, t), "failed-precondition")
        /\ \A u \in Users :
              /\ SeatedIds \subseteq DOMAIN After(gamesJoinTx(Docs, u)).players
              /\ SeatedIds \subseteq DOMAIN After(gameResetTx(Docs, u)).players
              /\ SeatedIds \subseteq DOMAIN After(gameLeaveTx(Docs, u)).players
              /\ \A t \in Users : SeatedIds \subseteq DOMAIN After(gameKickTx(Docs, u, t)).players

\* A started room in which the host and another player are seated.
C15_Witness ==
    /\ exists
    /\ game.status = "playing"
    /\ game.hostUid \in SeatedIds
    /\ \E t \in SeatedIds \ {game.hostUid} :
          gameKickTx(Docs, game.hostUid, t).err = "failed-precondition"
    /\ \E u \in SeatedIds : gameLeaveTx(Docs, u).err = "failed-precondition"

\* C16: when the player to be removed holds no seat, a resignation and
\* gameLeave by that player and gameKick by the host naming that player fail
\* with failed-precondition and change nothing.
C16_RemovalNeedsSeat ==
    exists =>
        \A u \in Users \ SeatedIds :
            /\ \A refused \in BOOLEAN : Refused(resignTx(Docs, u, refused), "failed-precondition")
            /\ Refused(gameLeaveTx(Docs, u), "failed-precondition")
            /\ game.hostUid \in SeatedIds =>
                  Refused(gameKickTx(Docs, game.hostUid, u), "failed-precondition")

\* A lobby whose host is seated, and the next identity, which holds no seat:
\* every other check of the three requests passes.
C16_Witness ==
    /\ exists
    /\ game.status = "lobby"
    /\ game.hostUid \in SeatedIds
    /\ \E u \in Users \ SeatedIds :
          /\ Known(u)
          /\ gameKickTx(Docs, game.hostUid, u).err = "failed-precondition"
          /\ gameLeaveTx(Docs, u).err = "failed-precondition"
          /\ resignTx(Docs, u, FALSE).err = "failed-precondition"

\* C17: a step that removes a seat changes hostUid only when the removed
\* player was the host, and then to the first entry of the new turnOrder;
\* in a lobby of A, B from which B is removed, turnOrder becomes [A], hostUid
\* stays A and A's order stays 0.
C17_HostChangesOnlyWithHost ==
    [][\A x \in RemovedIds :
          /\ IF game.hostUid = x
             THEN Len(game'.turnOrder) > 0 => game'.hostUid = game'.turnOrder[1]
             ELSE game'.hostUid = game.hostUid
          /\ (game.status = "lobby" /\ game.turnOrder = <<"A", "B">> /\ x = "B") =>
                /\ game'.turnOrder = <<"A">>
                /\ game'.hostUid = "A"
                /\ players'["A"].order = players["A"].order
                /\ players'["A"].order = 0]_vars

\* The host A left a lobby of A, B, C and B, first of the new turnOrder, is
\* the host.
C17_Witness ==
    /\ exists
    /\ nSeated = 3
    /\ game.turnOrder = <<"B", "C">>
    /\ game.hostUid = "B"

\* C18: gameReset by a caller who is not hostUid fails with permission-denied
\* and leaves the game, players, hands, board, config, bank and trade
\* documents as they were.
C18_ResetByNonHost ==
    exists =>
        \A u \in Users :
            u # game.hostUid =>
                LET r == gameResetTx(Docs, u)
                    after == After(r)
                IN /\ r.err = "permission-denied"
                   /\ after.game = game
                   /\ after.players = players
                   /\ after.hands = hands
                   /\ after.board = board
                   /\ after.config = config
                   /\ after.bank = bank
                   /\ after.trade = trade

\* A started room with a piece on the board, and a seated player who is not
\* the host asking for a reset.
C18_Witness ==
    /\ exists
    /\ game.status = "playing"
    /\ TotalPieces > 0
    /\ \E u \in SeatedIds : u # game.hostUid /\ gameResetTx(Docs, u).err = "permission-denied"

\* A step in which gameReset commits for its caller, the host.
ResetCommits(u) == exists /\ game.hostUid = u /\ gameReset(u)

\* C19: a gameReset that commits, from any status, commits status placing
\* when four players are seated and lobby otherwise, currentPlayer the first id
\* of the new turnOrder (null when it is empty), round 0, turnPhase action,
\* winner and both award owners null, and the placement order turnOrder
\* followed by its reverse when the new status is placing and [] otherwise.
C19_ResetRoomState ==
    [][\A u \in Users : ResetCommits(u) =>
          /\ game'.status = IF NumSeated = MAX_PLAYERS THEN "placing" ELSE "lobby"
          /\ game'.currentPlayer =
                IF Len(game'.turnOrder) > 0 THEN game'.turnOrder[1] ELSE Null
          /\ game'.round = 0
          /\ game'.turnPhase = "action"
          /\ game'.winner = NullWinner
          /\ game'.largestArmyOwner = Null
          /\ game'.longestRoadOwner = Null
          /\ config'.initialPlacementOrder =
                IF game'.status = "placing"
                THEN game'.turnOrder \o Reverse(game'.turnOrder)
                ELSE <<>>]_vars

\* An ended game of four with a declared winner, both awards held and the
\* turn passed on, which its host can reset.
C19_Witness ==
    /\ exists
    /\ game.status = "ended"
    /\ NumSeated = MAX_PLAYERS
    /\ game.winner # NullWinner
    /\ game.longestRoadOwner # Null
    /\ game.largestArmyOwner # Null
    /\ game.round > 0
    /\ game.turnPhase = "dice"
    /\ game.currentPlayer # game.turnOrder[1]
    /\ gameResetTx(Docs, game.hostUid).err = "ok"

\* C20: a gameReset that commits keeps the seated players and their relative
\* order and leaves every seated player with score 0, no award flag and an
\* empty hand, the board without roads, settlements and cities and with a
\* cache of zeros, the bank at full stock and the trade idle.
C20_ResetClearsPlay ==
    [][\A u \in Users : ResetCommits(u) =>
          /\ DOMAIN players' = SeatedIds
          /\ Range(game'.turnOrder) = SeatedIds
          /\ \A a, b \in SeatedIds :
                players[a].order < players[b].order => players'[a].order < players'[b].order
          /\ \A id \in SeatedIds :
                /\ players'[id].pointsPublic = 0
                /\ ~players'[id].hasLargestArmy
                /\ ~players'[id].hasLongestRoad
                /\ id \in DOMAIN hands'
                /\ hands'[id] = [resources |-> 0, devCards |-> 0,
                                 devNewlyBought |-> 0, armyCount |-> 0]
          /\ board'.roads = {}
          /\ board'.settlements = {}
          /\ board'.cities = {}
          /\ \A k \in DOMAIN board'.longestRoadCache : board'.longestRoadCache[k] = 0
          /\ bank'.resources = 19
          /\ bank'.devRemain = 25
          /\ trade' = [phase |-> "idle", offer |-> Null]]_vars

\* A game in play in which a road is built and measured and a card bought,
\* with the host seated to reset it.
C20_Witness ==
    /\ exists
    /\ game.status = "playing"
    /\ board.roads # {}
    /\ \E k \in DOMAIN board.longestRoadCache : board.longestRoadCache[k] > 0
    /\ \E id \in SeatedIds : hands[id].devNewlyBought > 0
    /\ bank.devRemain < 25
    /\ gameResetTx(Docs, game.hostUid).err = "ok"

\* C21: under any interleaving of concurrent gamesCreate invocations, no two
\* existing rooms carry the same room code.
C21_CodesUnique ==
    \A r1, r2 \in rooms : r1.code = r2.code => r1.id = r2.id

\* C22: code allocation makes at most 8 probes and every invocation ends; the
\* probe that finds its candidate unused returns that candidate, a probe that
\* finds it taken goes on, and the eighth taken candidate ends the invocation
\* with resource-exhausted and no room document of its own.
C22_AllocationBounded ==
    /\ [](\A c \in Calls :
            /\ calls[c].attempt <= 8
            /\ calls[c].pc = "resource-exhausted" =>
                  calls[c].attempt = 8 /\ \A r \in rooms : r.id # c)
    /\ [][\A c \in Calls :
            calls'[c] # calls[c] /\ calls[c].pc = "probe" =>
               LET free == \A r \in rooms : r.code # calls'[c].code
               IN /\ calls'[c].attempt = calls[c].attempt + 1
                  /\ free <=> calls'[c].pc = "commit"
                  /\ ~free /\ calls'[c].attempt < 8 => calls'[c].pc = "probe"
                  /\ ~free /\ calls'[c].attempt = 8 => calls'[c].pc = "resource-exhausted"]_vars
    /\ <>(\A c \in Calls : calls[c].pc \in {"done", "resource-exhausted"})

C22_Witness ==
    \E c, d \in Calls :
       /\ calls[c].pc = "resource-exhausted"
       /\ calls[c].attempt = 8
       /\ calls[d].pc = "done"
       /\ rooms = {[id |-> d, code |-> calls[d].code]}

\* C23: the step that creates the room commits all of its documents at once:
\* status lobby, the caller as host and sole seat (order 0, color red),
\* turnOrder = [caller], an empty hand for the caller, an empty board whose
\* longest-road cache is {caller: 0}, a bank with 25 development cards left
\* and an idle trade.
C23_CreateCommitsRoom ==
    [][~exists /\ exists' =>
         \E caller \in Users :
            /\ game'.status = "lobby"
            /\ game'.hostUid = caller
            /\ game'.turnOrder = <<caller>>
            /\ DOMAIN players' = {caller}
            /\ players'[caller].uid = caller
            /\ players'[caller].order = 0
            /\ players'[caller].color = "red"
            /\ DOMAIN hands' = {caller}
            /\ hands'[caller] = [resources |-> 0, devCards |-> 0, devNewlyBought |-> 0,
                                 armyCount |-> 0]
            /\ board'.roads = {} /\ board'.settlements = {} /\ board'.cities = {}
            /\ DOMAIN board'.longestRoadCache = {caller}
            /\ board'.longestRoadCache[caller] = 0
            /\ bank'.devRemain = 25
            /\ trade'.phase = "idle" /\ trade'.offer = Null]_vars

C23_Witness ==
    /\ exists
    /\ nSeated = 1
    /\ game.status = "lobby"
    /\ game.turnOrder = <<"A">>
    /\ DOMAIN hands = {"A"}

\* C24: gameIntent with any intent type other than RESIGN returns the
\* unimplemented error, leaves every document of the room as it was and
\* reaches no logGameEvent, whatever the status of the room and whether or
\* not the caller is seated.
C24_OtherIntentsUnimplemented ==
    \A uid \in Users, type \in IntentTypes \ {"RESIGN"}, readRefused \in BOOLEAN :
       LET r == gameIntentTx(Docs, uid, type, readRefused)
       IN /\ r.err = "unimplemented"
          /\ runTransaction(Docs, r) = Docs
          /\ logAfter(r, LogEntry(uid, "leave", "resigned", Null)) = {}

C24_Witness ==
    /\ exists
    /\ game.status = "playing"
    /\ logs # <<>>
    /\ \E uid \in DOMAIN players, other \in Users \ DOMAIN players :
          /\ gameIntentTx(Docs, uid, "END_TURN", FALSE).err = "unimplemented"
          /\ gameIntentTx(Docs, other, "ROLL_DICE", FALSE).err = "unimplemented"

\* The transaction (gamesCreate: the batch) of the callable that logs entry e.
CommittedBy(e) ==
    CASE e.action = "join" ->
           IF ~exists THEN Res("ok", gamesCreateBatch(e.actor))
           ELSE gamesJoinTx(Docs, e.actor)
      [] e.action = "reset" -> gameResetTx(Docs, e.actor)
      [] e.action = "leave" /\ e.tag = "voluntary" -> gameLeaveTx(Docs, e.actor)
      [] e.action = "leave" /\ e.tag = "resigned" -> resignTx(Docs, e.actor, FALSE)
      [] e.action = "leave" /\ e.tag = "kicked" -> gameKickTx(Docs, e.actor, e.targetId)

\* C25: a callable reaches logGameEvent only in the step in which its
\* transaction commits, so one whose transaction aborts logs nothing; an entry
\* is appended only by a callable that has committed; and neither the append
\* nor its failure changes a document of the room.
C25_LogOnlyAfterCommit ==
    [][/\ \A c \in logCalls' \ logCalls :
             c.pc = "log" =>
                LET r == CommittedBy(c.entry)
                IN r.err = "ok" /\ Docs' = r.docs /\ logs' = logs
       /\ logs' # logs =>
             \E c \in logCalls :
                /\ c.pc = "log"
                /\ logs' = Append(logs, c.entry)
                /\ logCalls' = logCalls \ {c}
                /\ UNCHANGED docVars
       /\ \A c \in logCalls' \ logCalls :
             c.pc = "failed" =>
                /\ [c EXCEPT !.pc = "log"] \in logCalls
                /\ logs' = logs
                /\ UNCHANGED docVars]_vars

C25_Witness ==
    /\ exists
    /\ logs # <<>>
    /\ \E c \in logCalls :
          /\ c.pc = "failed"
          /\ c.entry.action = "join"
          /\ c.entry.actor \in DOMAIN players

C26_SameSeedSameOutput ==
    \A i, j \in 1..Len(runs) :
       /\ runs[i].fn = runs[j].fn
       /\ runs[i].fn \in {"generateMap", "buildDevDeck"}
       /\ runs[i].seed = runs[j].seed
       => runs[i].out = runs[j].out

C26_Witness ==
    /\ Len(runs) = 2
    /\ runs[1].fn = "generateMap"
    /\ runs[2].fn = "generateMap"
    /\ runs[1].seed = runs[2].seed
    /\ runs[1].out.map.tiles # [index \in 1..19 |-> [hexId |-> index - 1, type |-> TILE_POOL[index]]]

Count(seq, x) == Cardinality({i \in 1..Len(seq) : seq[i] = x})

\* C27: whatever the rng returns, the map gives the 19 hex ids, each once, 4
\* wood, 3 brick, 4 sheep, 4 wheat, 3 ore and 1 desert, and the 9 port edges,
\* each once, 4 generic ports and one port of each resource; the robber starts
\* on the hex of the one desert.
C27_MapIsPermutation ==
    \A i \in 1..Len(runs) :
       runs[i].fn = "generateMap" =>
          LET map == runs[i].out.map
              types == [index \in 1..Len(map.tiles) |-> map.tiles[index].type]
              portTypes == [index \in 1..Len(map.ports) |-> map.ports[index].type]
          IN /\ Len(map.tiles) = 19
             /\ \A index \in 1..19 : map.tiles[index].hexId = index - 1
             /\ Count(types, "wood") = 4 /\ Count(types, "brick") = 3
             /\ Count(types, "sheep") = 4 /\ Count(types, "wheat") = 4
             /\ Count(types, "ore") = 3 /\ Count(types, "desert") = 1
             /\ Len(map.ports) = 9
             /\ \A index \in 1..9 : map.ports[index].edgeId = PORT_EDGE_IDS[index]
             /\ Cardinality({PORT_EDGE_IDS[index] : index \in 1..9}) = 9
             /\ Count(portTypes, "3:1") = 4
             /\ \A res \in {"wood", "brick", "sheep", "wheat", "ore"} : Count(portTypes, res) = 1
             /\ \E index \in 1..19 :
                   map.tiles[index].type = "desert" /\ runs[i].out.robberHex = index - 1

C27_Witness ==
    /\ runs # <<>>
    /\ runs[1].fn = "generateMap"
    /\ runs[1].out.robberHex \notin {0, 18}
    /\ runs[1].out.map.ports[1].type # "3:1"

\* C28: whatever the rng returns, the deck has 25 cards, 14 knight, 2
\* roadBuilding, 2 yearOfPlenty, 2 monopoly and 5 vp, and the bank that
\* gamesCreate and gameReset write for a deck of that length has devRemain 25.
C28_DeckComposition ==
    \A i \in 1..Len(runs) :
       runs[i].fn = "buildDevDeck" =>
          LET deck == runs[i].out
          IN /\ Len(deck) = 25
             /\ Count(deck, "knight") = 14
             /\ Count(deck, "roadBuilding") = 2
             /\ Count(deck, "yearOfPlenty") = 2
             /\ Count(deck, "monopoly") = 2
             /\ Count(deck, "vp") = 5
             /\ Len(deck) = DevDeckSize
             /\ createInitialBank(Len(deck)).devRemain = 25
             /\ \A uid \in Users :
                   /\ gamesCreateBatch(uid).bank.devRemain = 25
                   /\ gameResetWrites(gamesCreateBatch(uid)).bank.devRemain = 25

C28_Witness ==
    /\ runs # <<>>
    /\ runs[1].fn = "buildDevDeck"
    /\ runs[1].out[1] # "knight"
    /\ runs[1].out[25] # "vp"

\* C29: the Config document written from generateInitialConfig holds the
\* seed of the map and the seed of the deck, and the map and the deck order
\* it holds are those the generator makes from these two seeds.
C29_ConfigHoldsBothSeeds ==
    \A i \in 1..Len(runs) :
       i = Len(runs) /\ runs[i].fn = "generateInitialConfig" =>
          /\ "devDeckSeed" \in DOMAIN config
          /\ buildDevDeck(config.devDeckSeed) = config.devDeckOrder
          /\ "mapSeed" \in DOMAIN config
          /\ generateMap(InitialPools, config.mapSeed).map = config.map

\* C31: the 18 chits of NUMBER_CHITS, each as often as the pool holds it, go
\* to the hexes so that every hex that is not the desert has exactly one
\* chit and the desert has none; the chits follow the non-desert hexes in the
\* order of the hexes.
C31_ChitsOnNonDesert ==
    \A i \in 1..Len(runs) :
       runs[i].fn = "generateMap" =>
          LET map == runs[i].out.map
              chits == [index \in 1..Len(map.numbers) |-> map.numbers[index].chit]
              ChitsOn(hexId) == {index \in 1..Len(map.numbers) : map.numbers[index].hexId = hexId}
          IN /\ Len(map.numbers) = 18
             /\ \A chit \in 2..12 : Count(chits, chit) = Count(NUMBER_CHITS, chit)
             /\ \A index \in 1..19 :
                   Cardinality(ChitsOn(map.tiles[index].hexId)) =
                      IF map.tiles[index].type = "desert" THEN 0 ELSE 1
             /\ \A a, b \in 1..18 : a < b => map.numbers[a].hexId < map.numbers[b].hexId

\* The desert lies among the hexes, so the chits after it go one hex further,
\* and the chits are not in the order of the pool.
C31_Witness ==
    /\ runs # <<>>
    /\ runs[1].fn = "generateMap"
    /\ runs[1].out.robberHex \notin {0, 18}
    /\ runs[1].out.map.numbers[18].hexId = 18
    /\ runs[1].out.map.numbers[1].hexId = 0
    /\ runs[1].out.map.numbers[1].chit # 2

\* C32: a resignation that commits when status is not lobby leaves on the
\* board exactly the roads, settlements and cities the resigned player does
\* not own, a longest-road cache of 0 for each remaining player and no other
\* key, and the trade idle with no offer.
C32_ResignStripsBoard ==
    [][\A u \in RemovedIds :
          (ResignCommits(u) /\ game.status # "lobby") =>
              /\ board'.roads = {p \in board.roads : p.owner # u}
              /\ board'.settlements = {p \in board.settlements : p.owner # u}
              /\ board'.cities = {p \in board.cities : p.owner # u}
              /\ DOMAIN board'.longestRoadCache = SeatedIds \ {u}
              /\ \A id \in SeatedIds \ {u} : board'.longestRoadCache[id] = 0
              /\ trade'.phase = "idle"
              /\ trade'.offer = Null]_vars

\* A game in play with a measured road and an open offer, in which the owner
\* of the road can resign and so can a player who owns nothing.
C32_Witness ==
    /\ exists
    /\ game.status = "playing"
    /\ trade.phase = "offer"
    /\ \E owner \in SeatedIds, u \in SeatedIds :
          /\ u # owner
          /\ owner \in DOMAIN board.longestRoadCache
          /\ board.longestRoadCache[owner] > 0
          /\ \E p \in board.roads : p.owner = owner
          /\ resignTx(Docs, owner, FALSE).err = "ok"
          /\ resignTx(Docs, owner, FALSE).docs.board.roads = {}
          /\ resignTx(Docs, u, FALSE).err = "ok"
          /\ resignTx(Docs, u, FALSE).docs.board.roads = board.roads

\* Transactions that have ended, and those that committed.
Ended(i) == txs[i].pc \notin {"start", "commit"}
Committed == {i \in DOMAIN txs : txs[i].pc = "ok"}

\* C33: under every interleaving of concurrent join transactions on one room,
\* never more than 4 players are seated; a join has committed exactly when its
\* caller is seated, the others that have ended ended with resource-exhausted,
\* and once all have ended as many have committed as there were free seats
\* (all of them when the seats were more); the joiners that committed have
\* pairwise distinct colors and distinct order values, and these differ from
\* those of the players seated before.
C33_ConcurrentJoins ==
    LET seatedBefore == NumSeated - Cardinality(Committed)
        freeSeats == MAX_PLAYERS - seatedBefore
    IN /\ NumSeated <= MAX_PLAYERS
       /\ \A i \in DOMAIN txs :
             /\ txs[i].pc = "ok" <=> txs[i].uid \in SeatedIds
             /\ Ended(i) => txs[i].pc \in {"ok", "resource-exhausted"}
       /\ Cardinality(Committed) <= freeSeats
       /\ (\A i \in DOMAIN txs : Ended(i)) =>
             Cardinality(Committed) = IF Len(txs) < freeSeats THEN Len(txs) ELSE freeSeats
       /\ \A i \in Committed : \A other \in SeatedIds \ {txs[i].uid} :
             /\ players[txs[i].uid].color # players[other].color
             /\ players[txs[i].uid].order # players[other].order

\* Every join has ended and the room is full: a join committed after a
\* refused commit, and another, whose first run had passed every check, found
\* the room full when it ran again.
C33_Witness ==
    /\ \A i \in DOMAIN txs : Ended(i)
    /\ txs # <<>>
    /\ \A i \in DOMAIN txs : txs[i].op = "join"
    /\ NumSeated = MAX_PLAYERS
    /\ \E i, j \in DOMAIN txs :
          /\ txs[i].pc = "ok" /\ txs[i].attempt >= 2
          /\ txs[j].pc = "resource-exhausted" /\ txs[j].attempt >= 2

\* The transactions that remove a seat, and the player the host's kick names.
Removals == {i \in DOMAIN txs : txs[i].op \in {"kick", "leave", "resign"}}
RemovalsCommitted == Removals \cap Committed

\* C34: when the host's kick of a seated player P runs concurrently with P's
\* own leave or resignation in the lobby, at most one of them commits and P
\* is seated until it does; each of the others ends with failed-precondition;
\* once all have ended exactly one has committed; and in every state P's
\* player and hand documents are both there or both gone, the order values of
\* the seated players are 0..n-1 and turnOrder lists the seated players by
\* order.
C34_ConcurrentRemovals ==
    \A k \in Removals :
       txs[k].op = "kick" =>
          LET P == txs[k].targetId
          IN /\ Cardinality(RemovalsCommitted) <= 1
             /\ P \in SeatedIds <=> RemovalsCommitted = {}
             /\ P \in DOMAIN hands <=> P \in SeatedIds
             /\ \A i \in Removals : Ended(i) => txs[i].pc \in {"ok", "failed-precondition"}
             /\ (\A i \in Removals : Ended(i)) => Cardinality(RemovalsCommitted) = 1
             /\ Len(game.turnOrder) = NumSeated
             /\ \A id \in SeatedIds :
                   /\ players[id].order \in 0..(NumSeated - 1)
                   /\ game.turnOrder[players[id].order + 1] = id

\* P's own removal committed; the kick, which had read P seated, was refused
\* at its commit and failed when it ran again.
C34_Witness ==
    /\ \A i \in DOMAIN txs : Ended(i)
    /\ \E k, own \in Removals :
          /\ txs[k].op = "kick"
          /\ txs[own].op \in {"leave", "resign"}
          /\ txs[own].uid = txs[k].targetId
          /\ txs[k].pc = "failed-precondition"
          /\ txs[k].attempt >= 2
          /\ txs[own].pc = "ok"
          /\ txs[k].targetId \notin SeatedIds
          /\ NumSeated >= 1

\* No tx.get of the calls follows a tx.set, tx.update or tx.delete.
ReadsFirst(storeCalls) ==
    \A i, j \in 1..Len(storeCalls) :
        (i < j /\ storeCalls[j].kind = "get") => storeCalls[i].kind = "get"

\* C35: in every transaction of the coordinator (join, resignation in the
\* lobby and after the start, leave, kick, reset), by any caller in any state
\* of the room, every read of a document comes before the first write or
\* delete.
C35_ReadsBeforeWrites ==
    \A uid \in Users :
        /\ ReadsFirst(gamesJoinCalls(Docs, uid))
        /\ ReadsFirst(gameLeaveCalls(Docs, uid))
        /\ ReadsFirst(gameResetCalls(Docs, uid))
        /\ \A targetId \in Users : ReadsFirst(gameKickCalls(Docs, uid, targetId))
        /\ ReadsFirst(resignCalls(Docs, uid))

\* C36: in every state of a room whose status is placing, exactly 4 players
\* are seated.
C36_PlacingHasFourSeats ==
    (exists /\ game.status = "placing") => NumSeated = MAX_PLAYERS

\* A room that is full for the second time: it lost a seat to a resignation
\* and a later join filled it again.
C36_Witness ==
    /\ exists
    /\ game.status = "placing"
    /\ NumSeated = MAX_PLAYERS
    /\ nSeated > MAX_PLAYERS

\* C37: whenever at least one player is seated, currentPlayer is the id of a
\* seated player: not null and not the id of a player who has gone.
C37_CurrentPlayerIsSeated ==
    (exists /\ SeatedIds # {}) => game.currentPlayer \in SeatedIds

\* C38: in every state the stored initial placement order is empty or is the
\* current turnOrder followed by its reverse, and so names seated players
\* only.
C38_PlacementOrderCurrent ==
    exists =>
        /\ \/ config.initialPlacementOrder = <<>>
           \/ config.initialPlacementOrder = game.turnOrder \o Reverse(game.turnOrder)
        /\ Range(config.initialPlacementOrder) \subseteq SeatedIds

\* C39: in every state the ids that have a hand document are exactly the ids
\* of the seated players.
C39_HandsAreSeated ==
    exists => DOMAIN hands = SeatedIds

\* Five identities have joined a room that was started with four of them;
\* two have given up their seats, one at least by a resignation after the
\* start, and three hands remain.
C39_Witness ==
    /\ exists
    /\ nSeated = 5
    /\ game.status = "playing"
    /\ SeatedIds = {"B", "C", "E"}
    /\ DOMAIN hands = {"B", "C", "E"}
    /\ game.turnOrder = <<"B", "C", "E">>

\* C40: once the room has ended with a winner, no step other than a
\* gameReset that commits changes or clears the winner: not a join, a leave,
\* a kick or a further resignation.
C40_WinnerStays ==
    [][(exists /\ game.status = "ended" /\ game.winner # NullWinner) =>
          \/ game'.winner = game.winner
          \/ \E u \in Users : ResetCommits(u)]_vars

====
